---- MODULE Spec2Model ----
(***************************************************************************)
(* Payment subsystem of nitrokit-core (PaymentService over PayTRProvider   *)
(* and StripeProvider) as a state machine: the service's provider, one     *)
(* call in flight, the HTTP requests the call issued and its outcome; and  *)
(* the shopping cart (ShoppingCartProvider) that builds payment requests.  *)
(*                                                                         *)
(* A JavaScript string is a sequence of tokens; a token is one character   *)
(* or one literal chunk of a template string. A JavaScript value of a      *)
(* payload field is a record [t, n, s] (undefined, number or string).      *)
(***************************************************************************)
EXTENDS Integers, Sequences, FiniteSets

VARIABLES
    provider,   \* PaymentService.provider: the instance in use, or NoProvider
    given,      \* the instance last handed to the service (constructor, setProvider)
    self,       \* `this` of the provider method in flight, or NoProvider
    pc,         \* "idle" or "fetching": position of the call in flight
    op,         \* the operation last invoked
    args,       \* its argument
    requests,   \* HTTP requests the call has issued so far, in order
    replies,    \* what each of these requests settled with, in order
    result,     \* how the call ended: [kind, value]
    cart,       \* the state of cartReducer in the mounted ShoppingCartProvider
    storage,    \* the entry under storageKey in localStorage and in sessionStorage
    now,        \* Date.now()
    props       \* the props of the mounted ShoppingCartProvider, or Unmounted

paymentVars == <<provider, given, self, pc, requests, replies>>
cartVars == <<cart, storage, now, props>>
vars == <<provider, given, self, pc, op, args, requests, replies, result,
          cart, storage, now, props>>

----------------------------------------------------------------------------
(* Bounds of the model *)

MaxAmount == 2
MaxBasketLen == 2

----------------------------------------------------------------------------
(* JavaScript values *)

Undef == [t |-> "undef", n |-> 0, s |-> <<>>]
Num(k) == [t |-> "num", n |-> k, s |-> <<>>]
Str(x) == [t |-> "str", n |-> 0, s |-> x]
Bool(b) == [t |-> "bool", n |-> IF b THEN 1 ELSE 0, s |-> <<>>]

\* !v
Falsy(v) ==
    CASE v.t = "undef" -> TRUE
      [] v.t = "num" -> v.n = 0
      [] v.t = "str" -> v.s = <<>>
      [] v.t = "bool" -> v.n = 0

Truthy(v) == ~Falsy(v)

\* a ?? b
Nullish(a, b) == IF a.t = "undef" THEN b ELSE a

\* a || b
OrElse(a, b) == IF Truthy(a) THEN a ELSE b

Digit(d) ==
    CASE d = 0 -> "0" [] d = 1 -> "1" [] d = 2 -> "2" [] d = 3 -> "3"
      [] d = 4 -> "4" [] d = 5 -> "5" [] d = 6 -> "6" [] d = 7 -> "7"
      [] d = 8 -> "8" [] d = 9 -> "9"

RECURSIVE NatToStr(_)
NatToStr(k) ==
    IF k < 10 THEN <<Digit(k)>> ELSE NatToStr(k \div 10) \o <<Digit(k % 10)>>

\* String(v), also what a template literal does to ${v}
String(v) ==
    CASE v.t = "undef" -> <<"undefined">>
      [] v.t = "num" -> IF v.n < 0 THEN <<"-">> \o NatToStr(-v.n) ELSE NatToStr(v.n)
      [] v.t = "str" -> v.s

\* s.startsWith(prefix)
StartsWith(s, prefix) ==
    /\ Len(s) >= Len(prefix)
    /\ SubSeq(s, 1, Len(prefix)) = prefix

----------------------------------------------------------------------------
(* Errors: [isError, message]; isError is `instanceof Error` *)

Err(msg) == [isError |-> TRUE, message |-> msg]
NonErr(msg) == [isError |-> FALSE, message |-> msg]

----------------------------------------------------------------------------
(* Construction *)

NoProvider == [kind |-> "none"]

\* PayTRConstruct without the check of merchantKey
PayTRConstructKeyUnchecked(config, env) ==
    LET merchantId == Nullish(config.merchantId, Nullish(env.PAYTR_MERCHANT_ID, Str(<<>>)))
        merchantKey == Nullish(config.merchantKey, Nullish(env.PAYTR_KEY, Str(<<>>)))
        merchantSalt == Nullish(config.merchantSalt, Nullish(env.PAYTR_SALT, Str(<<>>)))
        apiBase == Nullish(config.apiBase, Nullish(env.PAYTR_API_BASE, Str(<<"https://www.paytr.com">>)))
        testMode == Nullish(config.testMode,
                            Bool(env.PAYTR_TEST = Str(<<"1">>) \/ env.PAYTR_TEST = Str(<<"true">>)))
    IN  IF Falsy(merchantId)
        THEN [thrown |-> TRUE,
              err |-> Err(<<"PayTR configuration missing: merchantId and merchantKey are required.">>)]
        ELSE [thrown |-> FALSE,
              instance |-> [kind |-> "PayTR",
                            name |-> <<"PayTR">>,
                            merchantId |-> merchantId.s,
                            merchantKey |-> merchantKey.s,
                            merchantSalt |-> merchantSalt.s,
                            apiBase |-> apiBase.s,
                            testMode |-> Truthy(testMode)]]

\* new PayTRProvider(config) with process.env; the instance or the error thrown
PayTRConstruct(config, env) ==
    LET merchantId == Nullish(config.merchantId, Nullish(env.PAYTR_MERCHANT_ID, Str(<<>>)))
        merchantKey == Nullish(config.merchantKey, Nullish(env.PAYTR_KEY, Str(<<>>)))
        merchantSalt == Nullish(config.merchantSalt, Nullish(env.PAYTR_SALT, Str(<<>>)))
        apiBase == Nullish(config.apiBase, Nullish(env.PAYTR_API_BASE, Str(<<"https://www.paytr.com">>)))
        testMode == Nullish(config.testMode,
                            Bool(env.PAYTR_TEST = Str(<<"1">>) \/ env.PAYTR_TEST = Str(<<"true">>)))
    IN  IF Falsy(merchantId) \/ Falsy(merchantKey)
        THEN [thrown |-> TRUE,
              err |-> Err(<<"PayTR configuration missing: merchantId and merchantKey are required.">>)]
        ELSE [thrown |-> FALSE,
              instance |-> [kind |-> "PayTR",
                            name |-> <<"PayTR">>,
                            merchantId |-> merchantId.s,
                            merchantKey |-> merchantKey.s,
                            merchantSalt |-> merchantSalt.s,
                            apiBase |-> apiBase.s,
                            testMode |-> Truthy(testMode)]]

\* new StripeProvider(config) with process.env; the instance or the error thrown
\* (the warnings about the key's prefix go to the console only)
StripeConstruct(config, env) ==
    LET secretKey == Nullish(config.secretKey, Nullish(env.STRIPE_SECRET_KEY, Str(<<>>)))
        publishableKey == Nullish(config.publishableKey, Nullish(env.STRIPE_PUBLISHABLE_KEY, Str(<<>>)))
        webhookSecret == Nullish(config.webhookSecret, Nullish(env.STRIPE_WEBHOOK_SECRET, Str(<<>>)))
        apiVersion == Nullish(config.apiVersion,
                              Nullish(env.STRIPE_API_VERSION, Str(<<"2024-11-20.acacia">>)))
        testMode == Nullish(config.testMode,
                            Bool(env.STRIPE_TEST = Str(<<"1">>) \/ env.STRIPE_TEST = Str(<<"true">>)))
    IN  IF Falsy(secretKey)
        THEN [thrown |-> TRUE,
              err |-> Err(<<"Stripe configuration missing: secretKey is required.">>)]
        ELSE [thrown |-> FALSE,
              instance |-> [kind |-> "Stripe",
                            name |-> <<"Stripe">>,
                            secretKey |-> secretKey.s,
                            publishableKey |-> publishableKey.s,
                            webhookSecret |-> webhookSecret.s,
                            apiVersion |-> apiVersion.s,
                            apiBase |-> <<"https://api.stripe.com/v1">>,
                            testMode |-> Truthy(testMode)]]

\* configurations and environments the constructors are tried with
PayTRConfigs ==
    [merchantId : {Undef, Str(<<"M">>)},
     merchantKey : {Undef, Str(<<>>), Str(<<"K">>)},
     merchantSalt : {Undef, Str(<<"S">>)},
     apiBase : {Undef},
     testMode : {Undef, Bool(FALSE)}]

PayTREnvs ==
    [PAYTR_MERCHANT_ID : {Undef, Str(<<"M">>)},
     PAYTR_KEY : {Undef, Str(<<"K", "2">>)},
     PAYTR_SALT : {Undef},
     PAYTR_API_BASE : {Undef},
     PAYTR_TEST : {Undef, Str(<<"1">>)}]

StripeConfigs ==
    [secretKey : {Undef, Str(<<>>), Str(<<"sk_test_", "1">>)},
     publishableKey : {Undef},
     apiVersion : {Undef},
     webhookSecret : {Undef, Str(<<>>), Str(<<"w", "h">>)},
     testMode : {Undef, Bool(FALSE)}]

StripeEnvs ==
    [STRIPE_SECRET_KEY : {Undef, Str(<<"sk_live_", "1">>)},
     STRIPE_PUBLISHABLE_KEY : {Undef},
     STRIPE_API_VERSION : {Undef},
     STRIPE_WEBHOOK_SECRET : {Undef, Str(<<"w", "h">>)},
     STRIPE_TEST : {Undef, Str(<<"1">>)}]

----------------------------------------------------------------------------
(* Signature engine *)

\* crypto.createHmac('sha256', key).update(message).digest('base64'): an
\* injective function of (key, message), different from both
Hmac(key, message) == <<"hmac(">> \o key \o <<",">> \o message \o <<")">>

hmacBase64(p, message) == Hmac(p.merchantKey, message)

\* PayTRVerifyCallback with the status left out of the signed message
PayTRVerifyCallbackNoStatus(p, payload) ==
    IF Falsy(payload.orderId) \/ Falsy(payload.status)
         \/ Falsy(payload.amount) \/ Falsy(payload.hash)
    THEN FALSE
    ELSE LET total == String(payload.amount)
             input == p.merchantId \o String(payload.orderId) \o total \o p.merchantSalt
         IN  Str(hmacBase64(p, input)) = payload.hash

\* PayTRProvider.verifyCallback: the boolean returned
PayTRVerifyCallback(p, payload) ==
    IF Falsy(payload.orderId) \/ Falsy(payload.status)
         \/ Falsy(payload.amount) \/ Falsy(payload.hash)
    THEN FALSE
    ELSE LET total == String(payload.amount)
             input == p.merchantId \o String(payload.orderId)
                        \o String(payload.status) \o total \o p.merchantSalt
             expected == hmacBase64(p, input)
         IN  Str(expected) = payload.hash

\* StripeVerifyCallback refusing a payload without amount
StripeVerifyCallbackAmountChecked(p, payload) ==
    IF Falsy(payload.orderId) \/ Falsy(payload.status)
         \/ Falsy(payload.amount) \/ Falsy(payload.hash)
    THEN FALSE
    ELSE IF p.webhookSecret = <<>>
         THEN TRUE
         ELSE payload.hash = Str(p.webhookSecret)

\* StripeProvider.verifyCallback: the boolean returned
StripeVerifyCallback(p, payload) ==
    IF Falsy(payload.orderId) \/ Falsy(payload.status) \/ Falsy(payload.hash)
    THEN FALSE
    ELSE IF p.webhookSecret = <<>>
         THEN TRUE
         ELSE payload.hash = Str(p.webhookSecret)

verifyCallback(p, payload) ==
    IF p.kind = "PayTR" THEN PayTRVerifyCallback(p, payload)
    ELSE StripeVerifyCallback(p, payload)

----------------------------------------------------------------------------
(* Request validator *)

IsSpace(c) == c \in {" ", "\t", "\n"}

\* /^[^\s@]+@[^\s@]+\.[^\s@]+$/.test(s)
EmailRegexTest(s) ==
    /\ \A i \in 1..Len(s) : ~IsSpace(s[i])
    /\ \E at \in 2..Len(s) :
         /\ s[at] = "@"
         /\ \A i \in 1..Len(s) : s[i] = "@" => i = at
         /\ \E dot \in (at + 2)..(Len(s) - 1) : s[dot] = "."

Http == <<"h", "t", "t", "p">>

\* FirstViolatedRule with the check of failUrl left out
FirstViolatedRuleNoFailUrl(params) ==
    IF Falsy(params.orderId) \/ params.orderId.t # "str" THEN 1
    ELSE IF params.amount.t # "num" \/ params.amount.n < 1 THEN 2
    ELSE IF Falsy(params.email) \/ ~EmailRegexTest(params.email.s) THEN 3
    ELSE IF Falsy(params.successUrl) \/ ~StartsWith(params.successUrl.s, Http) THEN 4
    ELSE 0

\* FirstViolatedRule checking the email before the order id and the amount
FirstViolatedRuleEmailFirst(params) ==
    IF Falsy(params.email) \/ ~EmailRegexTest(params.email.s) THEN 3
    ELSE IF Falsy(params.orderId) \/ params.orderId.t # "str" THEN 1
    ELSE IF params.amount.t # "num" \/ params.amount.n < 1 THEN 2
    ELSE IF Falsy(params.successUrl) \/ ~StartsWith(params.successUrl.s, Http) THEN 4
    ELSE IF Falsy(params.failUrl) \/ ~StartsWith(params.failUrl.s, Http) THEN 5
    ELSE 0

\* FirstViolatedRule accepting an amount of 0
FirstViolatedRuleZeroAmount(params) ==
    IF Falsy(params.orderId) \/ params.orderId.t # "str" THEN 1
    ELSE IF params.amount.t # "num" \/ params.amount.n < 0 THEN 2
    ELSE IF Falsy(params.email) \/ ~EmailRegexTest(params.email.s) THEN 3
    ELSE IF Falsy(params.successUrl) \/ ~StartsWith(params.successUrl.s, Http) THEN 4
    ELSE IF Falsy(params.failUrl) \/ ~StartsWith(params.failUrl.s, Http) THEN 5
    ELSE 0

\* the first failing check of validatePaymentRequest, 0 when all pass
FirstViolatedRule(params) ==
    IF Falsy(params.orderId) \/ params.orderId.t # "str" THEN 1
    ELSE IF params.amount.t # "num" \/ params.amount.n < 1 THEN 2
    ELSE IF Falsy(params.email) \/ ~EmailRegexTest(params.email.s) THEN 3
    ELSE IF Falsy(params.successUrl) \/ ~StartsWith(params.successUrl.s, Http) THEN 4
    ELSE IF Falsy(params.failUrl) \/ ~StartsWith(params.failUrl.s, Http) THEN 5
    ELSE 0

PayTRAmountMessage == <<"Amount must be a positive number (in kurus)">>
StripeAmountMessage == <<"Amount must be a positive number (in smallest currency unit)">>

RuleMessage(rule, amountMessage) ==
    CASE rule = 1 -> <<"Order ID is required and must be a string">>
      [] rule = 2 -> amountMessage
      [] rule = 3 -> <<"Valid email address is required">>
      [] rule = 4 -> <<"Valid success URL is required">>
      [] rule = 5 -> <<"Valid fail URL is required">>

\* PayTRProvider.validatePaymentRequest: the error thrown, or NoError
NoError == [isError |-> FALSE, message |-> <<>>]

PayTRValidatePaymentRequest(params) ==
    LET rule == FirstViolatedRule(params)
    IN  IF rule = 0 THEN NoError ELSE Err(RuleMessage(rule, PayTRAmountMessage))

\* StripeProvider.validatePaymentRequest: the error thrown, or NoError
StripeValidatePaymentRequest(params) ==
    LET rule == FirstViolatedRule(params)
    IN  IF rule = 0 THEN NoError ELSE Err(RuleMessage(rule, StripeAmountMessage))

----------------------------------------------------------------------------
(* Basket codec *)

NoBasket == [present |-> FALSE, items |-> <<>>]
Basket(items) == [present |-> TRUE, items |-> items]

\* the first failing check of encodeBasket's map callback on one item
ItemError(item) ==
    IF Falsy(item.name) \/ item.name.t # "str"
    THEN Err(<<"Basket item name is required and must be a string">>)
    ELSE IF item.price.t # "num" \/ item.price.n < 0
    THEN Err(<<"Basket item price must be a positive number">>)
    ELSE IF item.quantity.t # "num" \/ item.quantity.n < 1
    THEN Err(<<"Basket item quantity must be at least 1">>)
    ELSE NoError

\* ToFixed2 without the leading zero of a fraction below ten
ToFixed2NoPad(price) ==
    NatToStr(price \div 100) \o <<".">> \o NatToStr(price % 100)

\* (price / 100).toFixed(2) for an integer price >= 0
ToFixed2(price) ==
    NatToStr(price \div 100) \o <<".">>
        \o <<Digit((price % 100) \div 10), Digit(price % 10)>>

NameLimit == 100

\* name.substring(0, 100)
Substring100(name) ==
    IF Len(name) <= NameLimit THEN name ELSE SubSeq(name, 1, NameLimit)

\* JSON.stringify of a list of triples [name, price, quantity]
RECURSIVE JsonTriples(_)
JsonTriples(triples) ==
    IF triples = <<>> THEN <<>>
    ELSE LET h == Head(triples)
         IN  <<"[", "\"">> \o h[1] \o <<"\"", ",", "\"">> \o h[2] \o <<"\"", ",">>
               \o NatToStr(h[3]) \o <<"]">>
               \o (IF Tail(triples) = <<>> THEN <<>> ELSE <<",">>)
               \o JsonTriples(Tail(triples))

JsonStringify(triples) == <<"[">> \o JsonTriples(triples) \o <<"]">>

\* Buffer.from(text).toString('base64'): injective, never the text itself
Base64(text) == <<"base64(">> \o text \o <<")">>

\* PayTRProvider.encodeBasket: [thrown, err] or [thrown, value]
encodeBasket(items) ==
    IF items = <<>>
    THEN [thrown |-> FALSE, err |-> NoError,
          value |-> Base64(JsonStringify(<< << <<"Urun">>, <<"1", ".", "0", "0">>, 1 >> >>))]
    ELSE IF \E i \in 1..Len(items) : ItemError(items[i]).isError
    THEN LET first == CHOOSE i \in 1..Len(items) :
                         /\ ItemError(items[i]).isError
                         /\ \A j \in 1..(i - 1) : ~ItemError(items[j]).isError
         IN  [thrown |-> TRUE, err |-> ItemError(items[first]), value |-> <<>>]
    ELSE [thrown |-> FALSE, err |-> NoError,
          value |-> Base64(JsonStringify(
                       [i \in 1..Len(items) |->
                          << Substring100(items[i].name.s),
                             ToFixed2(items[i].price.n),
                             items[i].quantity.n >>]))]

\* currency.toLowerCase() on a currency code
ToLowerCase(c) ==
    [i \in 1..Len(c) |->
        CASE c[i] = "TRY" -> "try" [] c[i] = "USD" -> "usd" [] OTHER -> c[i]]

\* convertBasketToLineItems turning the prices into major units
convertBasketToLineItemsMajorUnits(items, currency) ==
    IF items = <<>>
    THEN << [currency |-> ToLowerCase(currency), name |-> Str(<<"Order Payment">>),
             unit_amount |-> Num(100), quantity |-> Num(1)] >>
    ELSE [i \in 1..Len(items) |->
            [currency |-> ToLowerCase(currency), name |-> items[i].name,
             unit_amount |-> Num(items[i].price.n \div 100), quantity |-> items[i].quantity]]

\* StripeProvider.convertBasketToLineItems
convertBasketToLineItems(items, currency) ==
    IF items = <<>>
    THEN << [currency |-> ToLowerCase(currency), name |-> Str(<<"Order Payment">>),
             unit_amount |-> Num(100), quantity |-> Num(1)] >>
    ELSE [i \in 1..Len(items) |->
            [currency |-> ToLowerCase(currency), name |-> items[i].name,
             unit_amount |-> items[i].price, quantity |-> items[i].quantity]]

----------------------------------------------------------------------------
(* HTTP: what fetch is given and what it settles with *)

\* res.ok
Ok(status) == status >= 200 /\ status <= 299

ReasonPhrase(status) ==
    CASE status = 200 -> <<"OK">>
      [] status = 201 -> <<"Created">>
      [] status = 404 -> <<"Not Found">>
      [] OTHER -> <<"Internal Server Error">>

\* a parsed JSON body: null or an object with the fields the adapters read
NoErrorObj == [present |-> FALSE, message |-> Undef, code |-> Undef]
ErrorObj(message, code) == [present |-> TRUE, message |-> message, code |-> code]

JsonObj(status, token, reason, reason_code, id, url, error) ==
    [t |-> "object", status |-> status, token |-> token, reason |-> reason,
     reason_code |-> reason_code, id |-> id, url |-> url, error |-> error]

JsonNull == [JsonObj(Undef, Undef, Undef, Undef, Undef, Undef, NoErrorObj) EXCEPT !.t = "null"]
Unparseable == [JsonObj(Undef, Undef, Undef, Undef, Undef, Undef, NoErrorObj) EXCEPT !.t = "unparseable"]

\* a response body: its text and what JSON.parse makes of it
Body(text, json) == [text |-> text, json |-> json]

\* await res.json(): [thrown, err, value]
ResJson(res) ==
    IF res.body.json.t = "unparseable"
    THEN [thrown |-> TRUE, err |-> Err(<<"Unexpected end of JSON input">>), value |-> JsonNull]
    ELSE [thrown |-> FALSE, err |-> NoError, value |-> res.body.json]

\* await res.text()
ResText(res) == res.body.text

\* reading a property of null
NullPropertyError == Err(<<"Cannot read properties of null">>)

Request(method, url, headers, body) ==
    [method |-> method, url |-> url, headers |-> headers, body |-> body]

\* the headers of PayTRProvider's requests
FormHeaders == [ContentType |-> <<"application/x-www-form-urlencoded">>]

\* StripeProvider.getAuthHeaders
getAuthHeaders(p) ==
    [Authorization |-> <<"Bearer ">> \o p.secretKey,
     ContentType |-> <<"application/x-www-form-urlencoded">>,
     StripeVersion |-> p.apiVersion]

\* the body with its undefined values dropped, and its '' values too when
\* dropEmpty; the values left are stringified as URLSearchParams does
FormBody(fields, dropEmpty) ==
    LET keep == {k \in DOMAIN fields :
                    /\ fields[k].t # "undef"
                    /\ ~(dropEmpty /\ fields[k] = Str(<<>>))}
    IN  [k \in keep |-> String(fields[k])]

----------------------------------------------------------------------------
(* createPayment *)

RawText(text) == [kind |-> "text", v |-> text]
RawJson(json) == [kind |-> "json", v |-> json]
RawError(err) == [kind |-> "error", v |-> err]

CreatePaymentResponse(success, token, paymentUrl, reason, errorCode, raw) ==
    [success |-> success, token |-> token, paymentUrl |-> paymentUrl,
     reason |-> reason, errorCode |-> errorCode, raw |-> raw]

\* the catch block of createPayment (both providers)
CreatePaymentCaught(err) ==
    CreatePaymentResponse(FALSE, Undef, Undef,
        IF err.isError THEN Str(err.message) ELSE Str(<<"Network or parsing error">>),
        Undef, RawError(err))

\* PayTRProvider.createPayment up to the fetch: the error thrown or the request
PayTRCreatePaymentRequest(p, params, rand) ==
    LET invalid == PayTRValidatePaymentRequest(params)
        amountStr == String(params.amount)
        hashInput == p.merchantId \o String(params.orderId) \o amountStr
                       \o String(params.successUrl) \o String(params.failUrl) \o rand
        hash == hmacBase64(p, hashInput)
        userBasket == IF params.basket.present
                      THEN encodeBasket(params.basket.items) ELSE encodeBasket(<<>>)
        body == [merchant_id |-> Str(p.merchantId),
                 merchant_oid |-> params.orderId,
                 user_ip |-> Nullish(params.userIp, Str(<<"127.0.0.1">>)),
                 merchant_ok_url |-> params.successUrl,
                 merchant_fail_url |-> params.failUrl,
                 payment_amount |-> params.amount,
                 email |-> params.email,
                 user_name |-> Nullish(params.userName, Str(<<>>)),
                 user_address |-> Nullish(params.userAddress, Str(<<>>)),
                 user_phone |-> Nullish(params.userPhone, Str(<<>>)),
                 currency |-> Nullish(params.currency, Str(<<"TRY">>)),
                 user_basket |-> Str(userBasket.value),
                 paytr_token |-> Str(hash),
                 debug_on |-> IF p.testMode THEN Num(1) ELSE Num(0),
                 no_installment |-> IF params.installment = Num(0) THEN Num(1) ELSE Num(0),
                 max_installment |-> OrElse(params.installment, Num(0)),
                 rand |-> Str(rand),
                 lang |-> Str(<<"tr">>)]
    IN  IF invalid.isError THEN [thrown |-> TRUE, err |-> invalid]
        ELSE IF userBasket.thrown THEN [thrown |-> TRUE, err |-> userBasket.err]
        ELSE [thrown |-> FALSE,
              request |-> Request("POST", p.apiBase \o <<"/odeme/api/get-token">>, FormHeaders,
                                  FormBody(body, TRUE))]

PaymentPage == <<"https://www.paytr.com/odeme/guvenli/">>

\* PayTRCreatePaymentResponse taking status "success" alone for a success
PayTRCreatePaymentResponseNoTokenCheck(res) ==
    IF ~Ok(res.status)
    THEN CreatePaymentResponse(FALSE, Undef, Undef,
             Str(<<"PayTR API error: ">> \o NatToStr(res.status) \o <<" ">> \o res.statusText),
             Undef, RawText(ResText(res)))
    ELSE LET parsed == ResJson(res)
             data == parsed.value
         IN  IF parsed.thrown THEN CreatePaymentCaught(parsed.err)
             ELSE IF data.t = "null" THEN CreatePaymentCaught(NullPropertyError)
             ELSE IF data.status = Str(<<"success">>)
             THEN CreatePaymentResponse(TRUE, data.token,
                      Str(PaymentPage \o String(data.token)), Undef, Undef, RawJson(data))
             ELSE CreatePaymentResponse(FALSE, Undef, Undef,
                      OrElse(data.reason, Str(<<"Unknown error">>)),
                      data.reason_code, RawJson(data))

\* PayTRProvider.createPayment after the fetch resolved with res
PayTRCreatePaymentResponse(res) ==
    IF ~Ok(res.status)
    THEN CreatePaymentResponse(FALSE, Undef, Undef,
             Str(<<"PayTR API error: ">> \o NatToStr(res.status) \o <<" ">> \o res.statusText),
             Undef, RawText(ResText(res)))
    ELSE LET parsed == ResJson(res)
             data == parsed.value
         IN  IF parsed.thrown THEN CreatePaymentCaught(parsed.err)
             ELSE IF data.t = "null" THEN CreatePaymentCaught(NullPropertyError)
             ELSE IF data.status = Str(<<"success">>) /\ Truthy(data.token)
             THEN CreatePaymentResponse(TRUE, data.token,
                      Str(PaymentPage \o String(data.token)), Undef, Undef, RawJson(data))
             ELSE CreatePaymentResponse(FALSE, Undef, Undef,
                      OrElse(data.reason, Str(<<"Unknown error">>)),
                      data.reason_code, RawJson(data))

\* StripeProvider.createPayment up to the fetch: the error thrown or the request
StripeCreatePaymentRequest(p, params) ==
    LET invalid == StripeValidatePaymentRequest(params)
        currency == ToLowerCase(Nullish(params.currency, Str(<<"TRY">>)).s)
        lineItems == IF params.basket.present
                     THEN convertBasketToLineItems(params.basket.items, currency)
                     ELSE << [currency |-> currency,
                              name |-> Str(<<"Order ">> \o String(params.orderId)),
                              unit_amount |-> params.amount,
                              quantity |-> Num(1)] >>
        bodyParams == [mode |-> <<"payment">>,
                       success_url |-> params.successUrl.s,
                       cancel_url |-> params.failUrl.s,
                       client_reference_id |-> params.orderId.s,
                       customer_email |-> params.email.s,
                       line_items |-> [i \in 1..Len(lineItems) |->
                                         [currency |-> lineItems[i].currency,
                                          name |-> String(lineItems[i].name),
                                          unit_amount |-> String(lineItems[i].unit_amount),
                                          quantity |-> String(lineItems[i].quantity)]],
                       metadata_order_id |-> params.orderId.s,
                       metadata_customer_name |->
                           IF Truthy(params.userName) THEN params.userName ELSE Undef,
                       metadata_customer_phone |->
                           IF Truthy(params.userPhone) THEN params.userPhone ELSE Undef]
    IN  IF invalid.isError THEN [thrown |-> TRUE, err |-> invalid]
        ELSE [thrown |-> FALSE,
              request |-> Request("POST", p.apiBase \o <<"/checkout/sessions">>, getAuthHeaders(p), bodyParams)]

\* StripeProvider.createPayment after the fetch resolved with res
StripeCreatePaymentResponse(res) ==
    LET parsed == ResJson(res)
        json == parsed.value
    IN  IF parsed.thrown THEN CreatePaymentCaught(parsed.err)
        ELSE IF json.t = "null" THEN CreatePaymentCaught(NullPropertyError)
        ELSE IF ~Ok(res.status)
        THEN CreatePaymentResponse(FALSE, Undef, Undef,
                 OrElse(json.error.message, Str(<<"Stripe API error">>)),
                 json.error.code, RawJson(json))
        ELSE CreatePaymentResponse(TRUE, json.id, json.url, Undef, Undef, RawJson(json))

----------------------------------------------------------------------------
(* refund *)

Resolved(value) == [kind |-> "resolved", value |-> value]
Rejected(err) == [kind |-> "rejected", value |-> err]

\* PayTRRefundRequest signing the amount as given while sending it converted
PayTRRefundRequestSignsGiven(p, params) ==
    LET refundAmount == IF Truthy(params.amount) THEN String(params.amount) ELSE <<>>
        input == p.merchantId \o String(params.orderId)
                   \o (IF params.amount.t = "undef" THEN <<>> ELSE String(params.amount))
                   \o p.merchantSalt
        hash == hmacBase64(p, input)
        body == [merchant_id |-> Str(p.merchantId),
                 merchant_oid |-> params.orderId,
                 refund_amount |-> IF refundAmount # <<>> THEN Str(refundAmount) ELSE Undef,
                 paytr_token |-> Str(hash)]
    IN  IF Falsy(params.orderId)
        THEN [thrown |-> TRUE, err |-> Err(<<"Order ID is required for refund">>)]
        ELSE [thrown |-> FALSE,
              request |-> Request("POST", p.apiBase \o <<"/odeme/api/refund">>, FormHeaders,
                                  FormBody(body, FALSE))]

\* PayTRProvider.refund up to the fetch: the error thrown or the request
PayTRRefundRequest(p, params) ==
    LET refundAmount == IF Truthy(params.amount) THEN String(params.amount) ELSE <<>>
        input == p.merchantId \o String(params.orderId) \o refundAmount \o p.merchantSalt
        hash == hmacBase64(p, input)
        body == [merchant_id |-> Str(p.merchantId),
                 merchant_oid |-> params.orderId,
                 refund_amount |-> IF refundAmount # <<>> THEN Str(refundAmount) ELSE Undef,
                 paytr_token |-> Str(hash)]
    IN  IF Falsy(params.orderId)
        THEN [thrown |-> TRUE, err |-> Err(<<"Order ID is required for refund">>)]
        ELSE [thrown |-> FALSE,
              request |-> Request("POST", p.apiBase \o <<"/odeme/api/refund">>, FormHeaders,
                                  FormBody(body, FALSE))]

\* PayTRRefundResponse with the HTTP status left out of the error message
PayTRRefundResponseNoStatus(res) ==
    IF ~Ok(res.status)
    THEN Rejected(Err(<<"PayTR refund request failed: ">> \o res.statusText
                        \o <<" - ">> \o ResText(res)))
    ELSE IF ResJson(res).thrown THEN Rejected(ResJson(res).err)
    ELSE Resolved(ResJson(res).value)

\* PayTRProvider.refund after the fetch resolved with res
PayTRRefundResponse(res) ==
    IF ~Ok(res.status)
    THEN Rejected(Err(<<"PayTR refund request failed: ">> \o NatToStr(res.status)
                        \o <<" ">> \o res.statusText \o <<" - ">> \o ResText(res)))
    ELSE IF ResJson(res).thrown THEN Rejected(ResJson(res).err)
    ELSE Resolved(ResJson(res).value)

\* the catch block of StripeProvider.refund
StripeRefundCaught(err) ==
    Err(<<"Stripe refund request failed: ">>
          \o (IF err.isError THEN err.message ELSE <<"Unknown error">>))

\* StripeRefundRequest without the check of orderId
StripeRefundRequestUnchecked(p, params) ==
    [thrown |-> FALSE,
     request |-> Request("POST", p.apiBase \o <<"/refunds">>, getAuthHeaders(p),
                         FormBody([payment_intent |-> params.orderId,
                                   amount |-> IF Truthy(params.amount)
                                              THEN Str(String(params.amount)) ELSE Undef],
                                  FALSE))]

\* StripeProvider.refund up to the fetch: the error thrown or the request
StripeRefundRequest(p, params) ==
    LET bodyParams == [payment_intent |-> params.orderId,
                       amount |-> IF Truthy(params.amount)
                                  THEN Str(String(params.amount)) ELSE Undef]
    IN  IF Falsy(params.orderId)
        THEN [thrown |-> TRUE,
              err |-> Err(<<"Order ID (Payment Intent ID) is required for refund">>)]
        ELSE [thrown |-> FALSE,
              request |-> Request("POST", p.apiBase \o <<"/refunds">>, getAuthHeaders(p),
                                  FormBody(bodyParams, FALSE))]

\* StripeProvider.refund after the fetch resolved with res
StripeRefundResponse(res) ==
    LET parsed == ResJson(res)
        error == parsed.value
    IN  IF ~Ok(res.status)
        THEN IF parsed.thrown THEN Rejected(StripeRefundCaught(parsed.err))
             ELSE IF error.t = "null" THEN Rejected(StripeRefundCaught(NullPropertyError))
             ELSE Rejected(StripeRefundCaught(
                      Err(<<"Stripe refund failed: ">>
                            \o String(OrElse(error.error.message, Str(res.statusText))))))
        ELSE IF parsed.thrown THEN Rejected(parsed.err)
        ELSE Resolved(parsed.value)

----------------------------------------------------------------------------
(* queryTransaction *)

\* PayTRProvider.queryTransaction up to the fetch: the error thrown or the request
PayTRQueryRequest(p, orderId) ==
    LET input == p.merchantId \o String(orderId) \o p.merchantSalt
        hash == hmacBase64(p, input)
        body == [merchant_id |-> Str(p.merchantId),
                 merchant_oid |-> orderId,
                 paytr_token |-> Str(hash)]
    IN  IF Falsy(orderId)
        THEN [thrown |-> TRUE, err |-> Err(<<"Order ID is required for transaction query">>)]
        ELSE [thrown |-> FALSE,
              request |-> Request("POST", p.apiBase \o <<"/odeme/api/get-payment">>, FormHeaders,
                                  FormBody(body, FALSE))]

\* PayTRProvider.queryTransaction after the fetch resolved with res
PayTRQueryResponse(res) ==
    IF ~Ok(res.status)
    THEN Rejected(Err(<<"PayTR get-payment request failed: ">> \o NatToStr(res.status)
                        \o <<" ">> \o res.statusText \o <<" - ">> \o ResText(res)))
    ELSE IF ResJson(res).thrown THEN Rejected(ResJson(res).err)
    ELSE Resolved(ResJson(res).value)

NoBody == <<>>

\* the two resources StripeProvider.queryTransaction looks the id up in
PaymentIntentUrl(p, orderId) == p.apiBase \o <<"/payment_intents/">> \o String(orderId)
CheckoutSessionUrl(p, orderId) == p.apiBase \o <<"/checkout/sessions/">> \o String(orderId)

\* the catch block of StripeProvider.queryTransaction
StripeQueryCaught(err) ==
    Err(<<"Stripe query failed: ">>
          \o (IF err.isError THEN err.message ELSE <<"Unknown error">>))

\* StripeProvider.queryTransaction: the request it starts with, or the error thrown
StripeQueryRequest(p, orderId) ==
    IF Falsy(orderId)
    THEN [thrown |-> TRUE,
          err |-> Err(<<"Order ID (Payment Intent or Session ID) is required">>)]
    ELSE [thrown |-> FALSE, request |-> Request("GET", PaymentIntentUrl(p, orderId), getAuthHeaders(p), NoBody)]

\* StripeQueryFirstResponse giving up when the payment intent is not found
StripeQueryFirstResponseNoFallback(p, orderId, res) ==
    [done |-> TRUE,
     result |-> IF ~Ok(res.status)
                THEN Rejected(StripeQueryCaught(Err(<<"Transaction not found: ">> \o res.statusText)))
                ELSE IF ResJson(res).thrown THEN Rejected(ResJson(res).err)
                ELSE Resolved(ResJson(res).value)]

\* StripeProvider.queryTransaction after its first fetch resolved with res: the
\* call ends (done, result) or goes on with a second request
StripeQueryFirstResponse(p, orderId, res) ==
    IF Ok(res.status)
    THEN [done |-> TRUE,
          result |-> IF ResJson(res).thrown THEN Rejected(ResJson(res).err)
                     ELSE Resolved(ResJson(res).value)]
    ELSE [done |-> FALSE,
          request |-> Request("GET", CheckoutSessionUrl(p, orderId), getAuthHeaders(p), NoBody)]

\* StripeProvider.queryTransaction after its second fetch resolved with res
StripeQuerySecondResponse(res) ==
    LET parsed == ResJson(res)
        error == parsed.value
    IN  IF ~Ok(res.status)
        THEN IF parsed.thrown THEN Rejected(StripeQueryCaught(parsed.err))
             ELSE IF error.t = "null" THEN Rejected(StripeQueryCaught(NullPropertyError))
             ELSE Rejected(StripeQueryCaught(
                      Err(<<"Transaction not found: ">>
                            \o String(OrElse(error.error.message, Str(res.statusText))))))
        ELSE IF parsed.thrown THEN Rejected(parsed.err)
        ELSE Resolved(parsed.value)

----------------------------------------------------------------------------
(* Inputs *)

Amounts == -1..MaxAmount

OrderIdValues == {Undef, Str(<<>>), Str(<<"A">>), Str(<<"A", "B">>)}
StatusValues == {Undef, Str(<<>>), Str(<<"s">>), Str(<<"B", "s">>)}
AmountValues ==
    {Undef, Str(<<>>)} \cup {Num(k) : k \in Amounts}
        \cup {Str(NatToStr(k)) : k \in 1..MaxAmount}

\* hashes a callback may carry: junk, the webhook secret, and digests made with
\* the instance's own credentials or with a foreign key
HashValues(p) ==
    {Undef, Str(<<>>), Str(<<"x">>), Str(<<"w", "h">>)}
      \cup (IF p.kind = "PayTR"
            THEN {Str(Hmac(k, p.merchantId \o o.s \o s.s \o String(a) \o p.merchantSalt)) :
                    k \in {p.merchantKey, <<"Z">>},
                    o \in {Str(<<"A">>), Str(<<"A", "B">>)},
                    s \in {Str(<<"s">>), Str(<<"B", "s">>)},
                    a \in {Num(1), Num(2)}}
            ELSE {})

Callbacks(p) ==
    [orderId : OrderIdValues, status : StatusValues,
     amount : AmountValues, hash : HashValues(p)]

\* createPayment requests
ValidItem == [name |-> Str(<<"P">>), price |-> Num(150), quantity |-> Num(2)]

Items ==
    {ValidItem,
     [ValidItem EXCEPT !.name = Str(<<>>)],
     [ValidItem EXCEPT !.quantity = Num(0)]}

Baskets ==
    {NoBasket} \cup {Basket(items) : items \in UNION {[1..k -> Items] : k \in 0..MaxBasketLen}}

GoodEmail == <<"a", "@", "b", ".", "c">>
Emails == {Str(<<>>), Str(GoodEmail), Str(<<"a", "@", "b">>), Str(<<"a", " ", "@", "b", ".", "c">>)}

GoodUrl == Http \o <<":", "/", "/", "x">>
SuccessUrls == {Str(<<>>), Str(<<"f", "t", "p">>), Str(GoodUrl)}
FailUrls == {Str(<<"f", "t", "p">>), Str(GoodUrl)}

\* the optional fields, all left out or all given
Extras ==
    {[userIp |-> Undef, userName |-> Undef, userAddress |-> Undef, userPhone |-> Undef,
      currency |-> Undef, installment |-> Undef],
     [userIp |-> Str(<<"1.2.3.4">>), userName |-> Str(<<"n">>), userAddress |-> Str(<<"a">>),
      userPhone |-> Str(<<"5">>), currency |-> Str(<<"USD">>), installment |-> Num(0)]}

CreatePaymentRequests ==
    {[orderId |-> o, amount |-> a, email |-> e, successUrl |-> su, failUrl |-> fu,
      basket |-> b, userIp |-> x.userIp, userName |-> x.userName,
      userAddress |-> x.userAddress, userPhone |-> x.userPhone,
      currency |-> x.currency, installment |-> x.installment] :
        o \in {Str(<<>>), Str(<<"A">>), Num(7)},
        a \in {Str(<<"1">>)} \cup {Num(k) : k \in Amounts},
        e \in Emails, su \in SuccessUrls, fu \in FailUrls, b \in Baskets, x \in Extras}

\* Math.random().toString(36).substring(2, 12): up to ten characters, none when
\* the number drawn is 0
Rands == {<<>>, <<"r">>}

RefundRequests ==
    [orderId : {Undef, Str(<<>>), Str(<<"A">>)},
     amount : {Undef} \cup {Num(k) : k \in 0..MaxAmount}]

QueryIds == {Undef, Str(<<>>), Str(<<"A">>)}

\* what fetch settles with
Statuses == {200, 201, 404, 500}

Bodies ==
    {Body(<<>>, Unparseable),
     Body(<<"null">>, JsonNull),
     Body(<<"{}">>, JsonObj(Undef, Undef, Undef, Undef, Undef, Undef, NoErrorObj)),
     Body(<<"success+token">>,
          JsonObj(Str(<<"success">>), Str(<<"t", "k">>), Undef, Undef, Undef, Undef, NoErrorObj)),
     Body(<<"success">>,
          JsonObj(Str(<<"success">>), Undef, Undef, Undef, Undef, Undef, NoErrorObj)),
     Body(<<"success+empty token">>,
          JsonObj(Str(<<"success">>), Str(<<>>), Undef, Undef, Undef, Undef, NoErrorObj)),
     Body(<<"failed+token">>,
          JsonObj(Str(<<"failed">>), Str(<<"t", "k">>), Undef, Undef, Undef, Undef, NoErrorObj)),
     Body(<<"failed+reason">>,
          JsonObj(Str(<<"failed">>), Undef, Str(<<"no funds">>), Num(7), Undef, Undef, NoErrorObj)),
     Body(<<"session">>,
          JsonObj(Undef, Undef, Undef, Undef, Str(<<"cs_1">>), Str(<<"https://checkout/cs_1">>), NoErrorObj)),
     Body(<<"session without url">>,
          JsonObj(Undef, Undef, Undef, Undef, Str(<<"cs_1">>), Undef, NoErrorObj)),
     Body(<<"error">>,
          JsonObj(Undef, Undef, Undef, Undef, Undef, Undef,
                  ErrorObj(Str(<<"Invalid API key">>), Str(<<"invalid_api_key">>)))),
     Body(<<"error without message">>,
          JsonObj(Undef, Undef, Undef, Undef, Undef, Undef, ErrorObj(Undef, Undef)))}

Responses ==
    UNION {{[status |-> st, statusText |-> tx, body |-> b] :
               tx \in {<<>>, ReasonPhrase(st)}, b \in Bodies} : st \in Statuses}

Rejections == {Err(<<"fetch failed">>), NonErr(<<"aborted">>)}

----------------------------------------------------------------------------
(* Shopping cart: cartReducer and the ShoppingCartProvider *)

\* the largest quantity an item is let grow to, and the last instant of the clock
MaxQuantity == 2
MaxTime == 2

Max(a, b) == IF a >= b THEN a ELSE b

CartItem(id, name, price, currency, quantity) ==
    [id |-> id, name |-> name, price |-> price, currency |-> currency,
     quantity |-> quantity]

\* items is the Record<string, CartItem> as the sequence of its values in
\* insertion order, which is the order Object.values gives for these ids
CartState(items, currency, updatedAt) ==
    [items |-> items, currency |-> currency, updatedAt |-> updatedAt]

\* Date.now() when the module was evaluated
LoadTime == 0

initialState == CartState(<<>>, Undef, LoadTime)

\* state.items[id] is defined
Has(items, id) == \E i \in 1..Len(items) : items[i].id = id

\* state.items[id]
Get(items, id) == items[CHOOSE i \in 1..Len(items) : items[i].id = id]

\* { ...items, [item.id]: item }
Assign(items, item) ==
    IF Has(items, item.id)
    THEN [i \in 1..Len(items) |-> IF items[i].id = item.id THEN item ELSE items[i]]
    ELSE Append(items, item)

\* clone = { ...items }; delete clone[id]
Delete(items, id) == SelectSeq(items, LAMBDA i : i.id # id)

\* Object.values(clone)[0]?.currency
FirstCurrency(items) == IF items = <<>> THEN Undef ELSE items[1].currency

\* { ...existing, ...patch }
Spread(existing, patch) ==
    [f \in DOMAIN existing |-> IF f \in DOMAIN patch THEN patch[f] ELSE existing[f]]

ADD(item) == [type |-> "ADD", item |-> item]
UPDATE(id, patch) == [type |-> "UPDATE", id |-> id, patch |-> patch]
REMOVE(id) == [type |-> "REMOVE", id |-> id]
SET_QTY(id, quantity) == [type |-> "SET_QTY", id |-> id, quantity |-> quantity]
CLEAR == [type |-> "CLEAR"]
SET(state) == [type |-> "SET", state |-> state]

\* the reducer hands back the state object it was given
ReturnsSameState(state, action) ==
    action.type \in {"UPDATE", "REMOVE", "SET_QTY"} /\ ~Has(state.items, action.id)

\* cartReducer(state, action) when Date.now() is t
cartReducer(state, action, t) ==
    CASE action.type = "ADD" ->
            LET item == action.item
                newItem == IF Has(state.items, item.id)
                           THEN LET existing == Get(state.items, item.id)
                                IN  [existing EXCEPT
                                        !.quantity = existing.quantity + item.quantity]
                           ELSE item
            IN  CartState(Assign(state.items, newItem),
                          OrElse(state.currency, item.currency), t)
      [] action.type = "UPDATE" ->
            IF ~Has(state.items, action.id) THEN state
            ELSE CartState(Assign(state.items,
                                  Spread(Get(state.items, action.id), action.patch)),
                           state.currency, t)
      [] action.type = "REMOVE" ->
            IF ~Has(state.items, action.id) THEN state
            ELSE LET clone == Delete(state.items, action.id)
                 IN  CartState(clone, FirstCurrency(clone), t)
      [] action.type = "SET_QTY" ->
            IF ~Has(state.items, action.id) THEN state
            ELSE LET qty == Max(0, action.quantity)
                 IN  IF qty = 0
                     THEN LET clone == Delete(state.items, action.id)
                          IN  CartState(clone, FirstCurrency(clone), t)
                     ELSE CartState(Assign(state.items,
                                           [Get(state.items, action.id)
                                               EXCEPT !.quantity = qty]),
                                    state.currency, t)
      [] action.type = "CLEAR" -> CartState(<<>>, Undef, t)
      [] action.type = "SET" -> action.state

\* items.reduce((sum, i) => sum + i.quantity, 0)
RECURSIVE totalQuantity(_)
totalQuantity(items) ==
    IF items = <<>> THEN 0
    ELSE totalQuantity(SubSeq(items, 1, Len(items) - 1)) + items[Len(items)].quantity

\* a total that counts every line once
RECURSIVE totalAmountPerLine(_)
totalAmountPerLine(items) ==
    IF items = <<>> THEN 0
    ELSE totalAmountPerLine(SubSeq(items, 1, Len(items) - 1)) + items[Len(items)].price

\* items.reduce((sum, i) => sum + i.price * i.quantity, 0)
RECURSIVE totalAmount(_)
totalAmount(items) ==
    IF items = <<>> THEN 0
    ELSE totalAmount(SubSeq(items, 1, Len(items) - 1))
            + items[Len(items)].price * items[Len(items)].quantity

\* an item argument of addItem taken as it is given
addItemUnclamped(item) == ADD([item EXCEPT !.quantity = Nullish(item.quantity, Num(1)).n])

\* the action addItem dispatches; item.quantity is undefined or a number
addItem(item) ==
    ADD([item EXCEPT !.quantity = Max(1, Nullish(item.quantity, Num(1)).n)])

updateItem(id, patch) == UPDATE(id, patch)
removeItem(id) == REMOVE(id)
setQuantity(id, quantity) == SET_QTY(id, quantity)
clearCart == CLEAR

\* toPaymentRequest(params) of a render with this state: the request, or the
\* error thrown
toPaymentRequest(state, params) ==
    LET items == state.items
        isEmpty == Len(items) = 0
        basket == [i \in 1..Len(items) |->
                      [name |-> Str(items[i].name), price |-> Num(items[i].price),
                       quantity |-> Num(items[i].quantity)]]
        total == totalAmount(items)
    IN  IF isEmpty
        THEN [kind |-> "thrown",
              value |-> Err(<<"Cannot create payment request from empty cart">>)]
        ELSE [kind |-> "returned",
              value |-> [orderId |-> params.orderId, amount |-> Num(total),
                         email |-> params.email, successUrl |-> params.successUrl,
                         failUrl |-> params.failUrl, basket |-> Basket(basket),
                         currency |-> OrElse(params.currency,
                                             OrElse(state.currency, items[1].currency)),
                         installment |-> params.installment,
                         userName |-> params.userName, userPhone |-> params.userPhone,
                         userAddress |-> params.userAddress, userIp |-> Undef]]

\* what a Storage holds under storageKey
NoEntry == [kind |-> "absent"]
Garbage == [kind |-> "text", value |-> <<"not json">>]

\* JSON.stringify(state)
StringifyState(state) == [kind |-> "json", value |-> state]

\* JSON.parse(raw), which throws on text that is no JSON
ParseState(raw) ==
    IF raw.kind = "json" THEN [ok |-> TRUE, value |-> raw.value]
    ELSE [ok |-> FALSE, value |-> Undef]

Unmounted == [mounted |-> FALSE]

ShoppingCartProviderProps(persist, storageMode, expireAfterMs, initialItems) ==
    [mounted |-> TRUE, persist |-> persist, storageMode |-> storageMode,
     expireAfterMs |-> expireAfterMs, initialItems |-> initialItems]

\* the Storage the effects use
StorageRef(p) == IF p.storageMode = "session" THEN "session" ELSE "local"

\* persist && storageMode !== 'none'
Persisting(p) == p.persist /\ p.storageMode # "none"

\* an expiry test that also fires at the boundary
ExpiredInclusive(p, parsed, t) ==
    Truthy(p.expireAfterMs) /\ t - parsed.updatedAt >= p.expireAfterMs.n

\* expireAfterMs && typeof parsed.updatedAt === 'number'
\*     && Date.now() - parsed.updatedAt > expireAfterMs
Expired(p, parsed, t) ==
    Truthy(p.expireAfterMs) /\ t - parsed.updatedAt > p.expireAfterMs.n

\* Object.fromEntries(initialItems.map((i) => [i.id, i]))
RECURSIVE FromEntries(_)
FromEntries(list) ==
    IF list = <<>> THEN <<>>
    ELSE Assign(FromEntries(SubSeq(list, 1, Len(list) - 1)), list[Len(list)])

\* the hydrate effect run at time t: the state after its dispatch, if any, and
\* the storage it leaves
Hydrate(p, state, store, t) ==
    IF Len(p.initialItems) # 0
    THEN [state |-> cartReducer(state,
                        SET(CartState(FromEntries(p.initialItems),
                                      p.initialItems[1].currency, t)), t),
          storage |-> store]
    ELSE IF Persisting(p)
    THEN LET raw == store[StorageRef(p)]
             parsed == ParseState(raw)
         IN  IF raw.kind = "absent" \/ ~parsed.ok
             THEN [state |-> state, storage |-> store]
             ELSE IF Expired(p, parsed.value, t)
             THEN [state |-> state,
                   storage |-> [store EXCEPT ![StorageRef(p)] = NoEntry]]
             ELSE [state |-> cartReducer(state, SET(parsed.value), t),
                   storage |-> store]
    ELSE [state |-> state, storage |-> store]

\* the persist effect run for a render with this state
Persist(p, state, store) ==
    IF ~Persisting(p) THEN store
    ELSE [store EXCEPT ![StorageRef(p)] = StringifyState(state)]

\* no ShoppingCartProvider is mounted
NoCart ==
    /\ cart = initialState
    /\ storage = [local |-> NoEntry, session |-> NoEntry]
    /\ now = 0
    /\ props = Unmounted

----------------------------------------------------------------------------
(* Actions *)

NoResult == [kind |-> "none"]

\* setProvider leaving the service's provider as it was
setProviderKeep(current, p) == current

\* PaymentService.setProvider(p) on a service holding current: the new this.provider
setProvider(current, p) == p

\* PaymentService.getProviderName() on a service holding current
getProviderName(current) == current.name

\* the provider a method of PaymentService delegates to: this.provider, read
\* when the method is invoked
Delegate == provider

\* Resumed reading the service's provider again instead of `this`
ResumedOnServiceProvider == provider

\* `this` in the code of a provider method that resumes after an await
Resumed == self

\* PaymentProvider.createPayment / refund / queryTransaction on instance p, up
\* to the first fetch
createPayment(p, params, rand) ==
    IF p.kind = "PayTR" THEN PayTRCreatePaymentRequest(p, params, rand)
    ELSE StripeCreatePaymentRequest(p, params)

refund(p, params) ==
    IF p.kind = "PayTR" THEN PayTRRefundRequest(p, params) ELSE StripeRefundRequest(p, params)

queryTransaction(p, orderId) ==
    IF p.kind = "PayTR" THEN PayTRQueryRequest(p, orderId) ELSE StripeQueryRequest(p, orderId)

Init ==
    /\ provider = NoProvider
    /\ given = NoProvider
    /\ self = NoProvider
    /\ pc = "idle"
    /\ op = "none"
    /\ args = <<>>
    /\ requests = <<>>
    /\ replies = <<>>
    /\ result = NoResult
    /\ NoCart

\* the caller constructs a provider and, when the constructor returns, makes it
\* the service's provider
ConstructPayTR ==
    /\ pc = "idle"
    /\ op = "none"
    /\ \E config \in PayTRConfigs, env \in PayTREnvs :
         LET r == PayTRConstruct(config, env)
         IN  /\ op' = "new PayTRProvider"
             /\ args' = [config |-> config, env |-> env]
             /\ requests' = <<>>
             /\ replies' = <<>>
             /\ IF r.thrown
                THEN /\ result' = [kind |-> "thrown", value |-> r.err]
                     /\ UNCHANGED <<provider, given>>
                ELSE /\ result' = [kind |-> "returned", value |-> r.instance]
                     /\ provider' = setProvider(provider, r.instance)
                     /\ given' = r.instance
    /\ UNCHANGED <<self, pc>>
    /\ UNCHANGED cartVars

ConstructStripe ==
    /\ pc = "idle"
    /\ op = "none"
    /\ \E config \in StripeConfigs, env \in StripeEnvs :
         LET r == StripeConstruct(config, env)
         IN  /\ op' = "new StripeProvider"
             /\ args' = [config |-> config, env |-> env]
             /\ requests' = <<>>
             /\ replies' = <<>>
             /\ IF r.thrown
                THEN /\ result' = [kind |-> "thrown", value |-> r.err]
                     /\ UNCHANGED <<provider, given>>
                ELSE /\ result' = [kind |-> "returned", value |-> r.instance]
                     /\ provider' = setProvider(provider, r.instance)
                     /\ given' = r.instance
    /\ UNCHANGED <<self, pc>>
    /\ UNCHANGED cartVars

\* PaymentService.verifyCallback(payload) delegates and returns
Verify(payload) ==
    /\ op' = "verifyCallback"
    /\ args' = payload
    /\ self' = Delegate
    /\ requests' = <<>>
    /\ replies' = <<>>
    /\ result' = [kind |-> "returned", value |-> verifyCallback(Delegate, payload)]
    /\ UNCHANGED <<provider, given, pc>>
    /\ UNCHANGED cartVars

VerifyCallback ==
    /\ pc = "idle" /\ op = "none" /\ provider # NoProvider
    /\ \E payload \in Callbacks(provider) : Verify(payload)

\* an async method of the service is invoked and delegates: the provider's
\* method rejects before any I/O, or issues its first request and waits
Invoke(name, arg, started) ==
    /\ op' = name
    /\ args' = arg
    /\ self' = Delegate
    /\ replies' = <<>>
    /\ IF started.thrown
       THEN /\ result' = Rejected(started.err)
            /\ requests' = <<>>
            /\ pc' = "idle"
       ELSE /\ result' = NoResult
            /\ requests' = <<started.request>>
            /\ pc' = "fetching"
    /\ UNCHANGED <<provider, given>>
    /\ UNCHANGED cartVars

PayTRCreatePayment ==
    /\ pc = "idle" /\ op = "none" /\ provider.kind = "PayTR"
    /\ \E params \in CreatePaymentRequests, rand \in Rands :
         Invoke("createPayment", params, createPayment(Delegate, params, rand))

StripeCreatePayment ==
    /\ pc = "idle" /\ op = "none" /\ provider.kind = "Stripe"
    /\ \E params \in CreatePaymentRequests :
         Invoke("createPayment", params, createPayment(Delegate, params, <<>>))

PayTRRefund ==
    /\ pc = "idle" /\ op = "none" /\ provider.kind = "PayTR"
    /\ \E params \in RefundRequests :
         Invoke("refund", params, refund(Delegate, params))

StripeRefund ==
    /\ pc = "idle" /\ op = "none" /\ provider.kind = "Stripe"
    /\ \E params \in RefundRequests :
         Invoke("refund", params, refund(Delegate, params))

PayTRQueryTransaction ==
    /\ pc = "idle" /\ op = "none" /\ provider.kind = "PayTR"
    /\ \E orderId \in QueryIds :
         Invoke("queryTransaction", orderId, queryTransaction(Delegate, orderId))

StripeQueryTransaction ==
    /\ pc = "idle" /\ op = "none" /\ provider.kind = "Stripe"
    /\ \E orderId \in QueryIds :
         Invoke("queryTransaction", orderId, queryTransaction(Delegate, orderId))

\* OnFetchRejected with createPayment's try/catch missing
OnFetchRejectedUncaught(p, name, err) ==
    IF p.kind = "PayTR" \/ name = "createPayment" THEN Rejected(err)
    ELSE IF name = "refund" THEN Rejected(StripeRefundCaught(err))
    ELSE Rejected(StripeQueryCaught(err))

\* what the waiting method does when its fetch rejects with err
OnFetchRejected(p, name, err) ==
    IF name = "createPayment" THEN Resolved(CreatePaymentCaught(err))
    ELSE IF p.kind = "PayTR" THEN Rejected(err)
    ELSE IF name = "refund" THEN Rejected(StripeRefundCaught(err))
    ELSE Rejected(StripeQueryCaught(err))

\* OnFetchResolved sending PayTR's refund request once more when the answer is
\* not 2xx
OnFetchResolvedRetrying(p, name, arg, sent, res) ==
    IF p.kind = "PayTR" /\ name = "refund" /\ sent = 1 /\ ~Ok(res.status)
    THEN [done |-> FALSE, request |-> PayTRRefundRequest(p, arg).request]
    ELSE IF p.kind = "PayTR"
    THEN [done |-> TRUE,
          result |-> CASE name = "createPayment" -> Resolved(PayTRCreatePaymentResponse(res))
                       [] name = "refund" -> PayTRRefundResponse(res)
                       [] name = "queryTransaction" -> PayTRQueryResponse(res)]
    ELSE CASE name = "createPayment" ->
                [done |-> TRUE, result |-> Resolved(StripeCreatePaymentResponse(res))]
           [] name = "refund" ->
                [done |-> TRUE, result |-> StripeRefundResponse(res)]
           [] name = "queryTransaction" ->
                IF sent = 1 THEN StripeQueryFirstResponse(p, arg, res)
                ELSE [done |-> TRUE, result |-> StripeQuerySecondResponse(res)]

\* what the waiting method does when its fetch resolves with res: it ends
\* (done, result) or issues a further request
OnFetchResolved(p, name, arg, sent, res) ==
    IF p.kind = "PayTR"
    THEN [done |-> TRUE,
          result |-> CASE name = "createPayment" -> Resolved(PayTRCreatePaymentResponse(res))
                       [] name = "refund" -> PayTRRefundResponse(res)
                       [] name = "queryTransaction" -> PayTRQueryResponse(res)]
    ELSE CASE name = "createPayment" ->
                [done |-> TRUE, result |-> Resolved(StripeCreatePaymentResponse(res))]
           [] name = "refund" ->
                [done |-> TRUE, result |-> StripeRefundResponse(res)]
           [] name = "queryTransaction" ->
                IF sent = 1 THEN StripeQueryFirstResponse(p, arg, res)
                ELSE [done |-> TRUE, result |-> StripeQuerySecondResponse(res)]

FetchRejects ==
    /\ pc = "fetching"
    /\ \E err \in Rejections :
         /\ replies' = Append(replies, [kind |-> "rejected", v |-> err])
         /\ result' = OnFetchRejected(Resumed, op, err)
    /\ pc' = "idle"
    /\ UNCHANGED <<provider, given, self, op, args, requests>>
    /\ UNCHANGED cartVars

FetchResolves ==
    /\ pc = "fetching"
    /\ \E res \in Responses :
         LET next == OnFetchResolved(Resumed, op, args, Len(requests), res)
         IN  /\ replies' = Append(replies, [kind |-> "response", v |-> res])
             /\ IF next.done
                THEN /\ result' = next.result
                     /\ pc' = "idle"
                     /\ UNCHANGED requests
                ELSE /\ requests' = Append(requests, next.request)
                     /\ UNCHANGED <<pc, result>>
    /\ UNCHANGED <<provider, given, self, op, args>>
    /\ UNCHANGED cartVars

\* the caller has taken the outcome of the finished call and moves on
CallerContinues ==
    /\ pc = "idle"
    /\ op # "none"
    /\ op' = "none"
    /\ args' = <<>>
    /\ self' = NoProvider
    /\ requests' = <<>>
    /\ replies' = <<>>
    /\ result' = NoResult
    /\ UNCHANGED <<provider, given, pc>>
    /\ UNCHANGED cartVars

Next ==
    \/ ConstructPayTR
    \/ ConstructStripe
    \/ VerifyCallback
    \/ PayTRCreatePayment
    \/ StripeCreatePayment
    \/ PayTRRefund
    \/ StripeRefund
    \/ PayTRQueryTransaction
    \/ StripeQueryTransaction
    \/ FetchRejects
    \/ FetchResolves
    \/ CallerContinues

\* calls made one after the other, through a service whose provider the caller
\* replaces between calls
Spec == Init /\ [][Next]_vars

----------------------------------------------------------------------------
(* The service with its provider replaced while a call is pending *)

\* the instances the caller holds and hands to the service
ServiceProviders ==
    {PayTRConstruct([merchantId |-> Str(<<"M">>), merchantKey |-> Str(<<"K">>),
                     merchantSalt |-> Str(<<"S">>), apiBase |-> b, testMode |-> Undef],
                    [PAYTR_MERCHANT_ID |-> Undef, PAYTR_KEY |-> Undef, PAYTR_SALT |-> Undef,
                     PAYTR_API_BASE |-> Undef, PAYTR_TEST |-> Undef]).instance :
        b \in {Undef, Str(<<"https://sandbox.paytr.test">>)}}
    \cup
    {StripeConstruct([secretKey |-> k, publishableKey |-> Undef, webhookSecret |-> Undef,
                      apiVersion |-> Undef, testMode |-> Undef],
                     [STRIPE_SECRET_KEY |-> Undef, STRIPE_PUBLISHABLE_KEY |-> Undef,
                      STRIPE_WEBHOOK_SECRET |-> Undef, STRIPE_API_VERSION |-> Undef,
                      STRIPE_TEST |-> Undef]).instance :
        k \in {Str(<<"sk_live_", "1">>), Str(<<"sk_live_", "2">>)}}

ValidRequest ==
    [orderId |-> Str(<<"A">>), amount |-> Num(1), email |-> Str(GoodEmail),
     successUrl |-> Str(GoodUrl), failUrl |-> Str(GoodUrl), basket |-> NoBasket,
     userIp |-> Undef, userName |-> Undef, userAddress |-> Undef, userPhone |-> Undef,
     currency |-> Undef, installment |-> Undef]

ServiceCreatePaymentRequests == {ValidRequest, [ValidRequest EXCEPT !.amount = Num(0)]}

ServiceRefundRequests ==
    {[orderId |-> Str(<<"A">>), amount |-> Undef], [orderId |-> Undef, amount |-> Num(1)]}

ServiceCallbacks ==
    [orderId : {Str(<<"A">>)}, status : {Str(<<"s">>)}, amount : {Num(1)},
     hash : {Str(<<>>), Str(<<"x">>),
             Str(Hmac(<<"K">>, <<"M">> \o <<"A">> \o <<"s">> \o <<"1">> \o <<"S">>))}]

\* new PaymentService(p)
ServiceInit ==
    /\ provider \in ServiceProviders
    /\ given = provider
    /\ self = NoProvider
    /\ pc = "idle"
    /\ op = "none"
    /\ args = <<>>
    /\ requests = <<>>
    /\ replies = <<>>
    /\ result = NoResult
    /\ NoCart

\* PaymentService.setProvider(p), at any moment
SetProvider ==
    /\ \E p \in ServiceProviders :
         /\ provider' = setProvider(provider, p)
         /\ given' = p
    /\ UNCHANGED <<self, pc, op, args, requests, replies, result>>
    /\ UNCHANGED cartVars

\* PaymentService.getProviderName()
GetProviderName ==
    /\ pc = "idle"
    /\ op = "none"
    /\ op' = "getProviderName"
    /\ result' = [kind |-> "returned", value |-> getProviderName(provider)]
    /\ UNCHANGED <<provider, given, self, pc, args, requests, replies>>
    /\ UNCHANGED cartVars

\* PaymentService.verifyCallback(payload)
ServiceVerifyCallback ==
    /\ pc = "idle" /\ op = "none"
    /\ \E payload \in ServiceCallbacks : Verify(payload)

\* PaymentService.createPayment(params)
ServiceCreatePayment ==
    /\ pc = "idle" /\ op = "none"
    /\ \E params \in ServiceCreatePaymentRequests :
         Invoke("createPayment", params, createPayment(Delegate, params, <<"r">>))

\* PaymentService.refund(params)
ServiceRefund ==
    /\ pc = "idle" /\ op = "none"
    /\ \E params \in ServiceRefundRequests :
         Invoke("refund", params, refund(Delegate, params))

\* PaymentService.queryTransaction(orderId)
ServiceQueryTransaction ==
    /\ pc = "idle" /\ op = "none"
    /\ \E orderId \in QueryIds :
         Invoke("queryTransaction", orderId, queryTransaction(Delegate, orderId))

ServiceNext ==
    \/ SetProvider
    \/ GetProviderName
    \/ ServiceVerifyCallback
    \/ ServiceCreatePayment
    \/ ServiceRefund
    \/ ServiceQueryTransaction
    \/ FetchRejects
    \/ FetchResolves
    \/ CallerContinues

ServiceSpec == ServiceInit /\ [][ServiceNext]_vars

----------------------------------------------------------------------------
(* createPayment over baskets of many shapes *)

Item(name, price, quantity) == [name |-> name, price |-> price, quantity |-> quantity]

\* names of NameLimit and of NameLimit + 1 characters
FullName == [i \in 1..NameLimit |-> "m"]
LongName == [i \in 1..(NameLimit + 1) |-> IF i <= NameLimit THEN "n" ELSE "z"]

BasketItems ==
    {Item(Str(<<"P">>), Num(0), Num(1)),
     Item(Str(<<"P">>), Num(5), Num(3)),
     Item(Str(LongName), Num(99), Num(1)),
     Item(Str(FullName), Num(100), Num(1)),
     Item(Str(<<"Q">>), Num(1005), Num(2)),
     Item(Str(<<"Q">>), Num(12345), Num(1)),
     Item(Str(<<>>), Num(5), Num(1)),
     Item(Num(7), Num(5), Num(1)),
     Item(Str(<<"P">>), Num(-1), Num(1)),
     Item(Str(<<"P">>), Num(5), Num(0))}

BasketsOfItems ==
    {NoBasket} \cup
    {Basket(items) : items \in UNION {[1..k -> BasketItems] : k \in 0..MaxBasketLen}}

BasketRequests ==
    {[ValidRequest EXCEPT !.basket = b, !.currency = c] :
        b \in BasketsOfItems, c \in {Undef, Str(<<"USD">>)}}

BasketProviders ==
    {p \in ServiceProviders :
        \/ p.kind = "PayTR" /\ p.apiBase = <<"https://www.paytr.com">>
        \/ p.kind = "Stripe" /\ p.secretKey = <<"sk_live_", "1">>}

BasketInit ==
    /\ provider \in BasketProviders
    /\ given = provider
    /\ self = NoProvider
    /\ pc = "idle"
    /\ op = "none"
    /\ args = <<>>
    /\ requests = <<>>
    /\ replies = <<>>
    /\ result = NoResult
    /\ NoCart

\* PaymentService.createPayment(params) on a request that passes the validator
BasketCreatePayment ==
    /\ pc = "idle" /\ op = "none"
    /\ \E params \in BasketRequests :
         Invoke("createPayment", params, createPayment(Delegate, params, <<"r">>))

BasketNext ==
    \/ BasketCreatePayment
    \/ FetchRejects
    \/ FetchResolves
    \/ CallerContinues

BasketSpec == BasketInit /\ [][BasketNext]_vars

----------------------------------------------------------------------------
(* The shopping cart in use: a ShoppingCartProvider is mounted and unmounted, *)
(* time passes, and the methods of useShoppingCart are called.                *)

Usd == Str(<<"usd">>)
Try == Str(<<"try">>)

\* the arguments of addItem: two products, with and without a quantity
AddItemInputs ==
    {CartItem("a", <<"Alpha">>, 100, Usd, q) : q \in {Undef, Num(0), Num(MaxQuantity)}}
    \cup {CartItem("b", <<"Beta">>, 250, Try, q) : q \in {Undef, Num(0)}}

Ids == {"a", "b"}

Patches ==
    {[name |-> <<"Gamma">>, price |-> 150], [quantity |-> 0],
     [currency |-> Str(<<"eur">>)]}

Quantities == {-1, 0, MaxQuantity}

PaymentParams ==
    {[orderId |-> Str(<<"A">>), email |-> Str(GoodEmail), successUrl |-> Str(GoodUrl),
      failUrl |-> Str(GoodUrl), currency |-> c, installment |-> Undef,
      userName |-> Undef, userPhone |-> Undef, userAddress |-> Undef] :
        c \in {Undef, Str(<<"gbp">>)}}

\* every provider persists to localStorage; the time to live and the initial
\* items vary
CartProps ==
    {ShoppingCartProviderProps(TRUE, "local", ttl, <<>>) : ttl \in {Undef, Num(0), Num(1)}}
    \cup {ShoppingCartProviderProps(TRUE, "local", Num(1),
                                     <<CartItem("b", <<"Beta">>, 250, Try, 1)>>)}

CartInit ==
    /\ provider = NoProvider
    /\ given = NoProvider
    /\ self = NoProvider
    /\ pc = "idle"
    /\ op = "none"
    /\ args = <<>>
    /\ requests = <<>>
    /\ replies = <<>>
    /\ result = NoResult
    /\ cart = initialState
    /\ storage \in {[local |-> e, session |-> NoEntry] : e \in {NoEntry, Garbage}}
    /\ now = 0
    /\ props = Unmounted

\* the first render with useReducer's initial state, then the effects of the
\* first commit in their order (hydrate, persist), then the persist effect of
\* the render the hydrate effect's dispatch causes; args keeps the props, the
\* entry the Storage held before and the time of the mount
Mount(p) ==
    LET hydrated == Hydrate(p, initialState, storage, now)
        first == Persist(p, initialState, hydrated.storage)
    IN  /\ props' = p
        /\ cart' = hydrated.state
        /\ storage' = Persist(p, hydrated.state, first)
        /\ op' = "mount"
        /\ args' = [props |-> p, stored |-> storage[StorageRef(p)], at |-> now]
        /\ result' = NoResult
        /\ UNCHANGED <<now, paymentVars>>

CartMount ==
    /\ ~props.mounted
    /\ \E p \in CartProps : Mount(p)

\* the provider goes away and its reducer state with it
Unmount ==
    /\ props.mounted
    /\ props' = Unmounted
    /\ cart' = initialState
    /\ op' = "none"
    /\ args' = <<>>
    /\ result' = NoResult
    /\ UNCHANGED <<storage, now, paymentVars>>

\* time passes
Tick ==
    /\ now < MaxTime
    /\ now' = now + 1
    /\ UNCHANGED <<cart, storage, props, op, args, result, paymentVars>>

\* dispatch(action), the render it causes and that render's persist effect
Dispatch(name, arg, action) ==
    /\ props.mounted
    /\ cart' = cartReducer(cart, action, now)
    /\ storage' = IF ReturnsSameState(cart, action) THEN storage
                  ELSE Persist(props, cart', storage)
    /\ op' = name
    /\ args' = arg
    /\ result' = [kind |-> "returned", value |-> Undef]
    /\ UNCHANGED <<now, props, paymentVars>>

\* the quantity item id has in these items, 0 when it is not among them
QuantityOf(items, id) == IF Has(items, id) THEN Get(items, id).quantity ELSE 0

AddItem ==
    \E item \in AddItemInputs :
        /\ QuantityOf(cart.items, item.id) + addItem(item).item.quantity <= MaxQuantity
        /\ Dispatch("addItem", item, addItem(item))

UpdateItem ==
    \E id \in Ids, patch \in Patches :
        /\ props.mounted
        /\ Dispatch("updateItem", <<id, patch>>, updateItem(id, patch))

RemoveItem ==
    \E id \in Ids :
        /\ props.mounted
        /\ Dispatch("removeItem", id, removeItem(id))

SetQuantity ==
    \E id \in Ids, quantity \in Quantities :
        /\ props.mounted
        /\ Dispatch("setQuantity", <<id, quantity>>, setQuantity(id, quantity))

ClearCart ==
    /\ props.mounted
    /\ Dispatch("clearCart", <<>>, clearCart)

ToPaymentRequest ==
    \E params \in PaymentParams :
        /\ props.mounted
        /\ op' = "toPaymentRequest"
        /\ args' = params
        /\ result' = toPaymentRequest(cart, params)
        /\ UNCHANGED <<cartVars, paymentVars>>

CartNext ==
    \/ CartMount
    \/ Unmount
    \/ Tick
    \/ AddItem
    \/ UpdateItem
    \/ RemoveItem
    \/ SetQuantity
    \/ ClearCart
    \/ ToPaymentRequest

CartSpec == CartInit /\ [][CartNext]_vars

----------------------------------------------------------------------------
(* Claims *)

\* whether part occurs in s as a contiguous run of tokens
Embeds(s, part) ==
    \E i \in 1..(Len(s) - Len(part) + 1) : SubSeq(s, i, i + Len(part) - 1) = part

Returned(value) == result = [kind |-> "returned", value |-> value]

\* a callback payload lacks one of its four fields
Incomplete(payload) ==
    \/ Falsy(payload.orderId) \/ Falsy(payload.status)
    \/ Falsy(payload.amount) \/ Falsy(payload.hash)

\* C1: verifyCallback, of either provider, returns false (and does not throw)
\* for every payload whose orderId, status, amount or hash is missing or empty.
C1_IncompleteCallbackRejected ==
    (op = "verifyCallback" /\ Incomplete(args)) => Returned(FALSE)

\* the digest PayTR documents for a callback:
\* base64(hmac_sha256(merchant_id + merchant_oid + status + total_amount + merchant_salt, merchant_key))
DocumentedHash(p, payload) ==
    Hmac(p.merchantKey,
         p.merchantId \o String(payload.orderId) \o String(payload.status)
            \o String(payload.amount) \o p.merchantSalt)

\* the value, derived from the configured secret, that payload.hash has to equal
SecretDerived(p, payload) ==
    IF p.kind = "PayTR" THEN DocumentedHash(p, payload) ELSE p.webhookSecret

\* C2: verifyCallback returns true only when payload.hash equals a value derived
\* from the provider's configured secret; no payload is accepted unchecked.
C2_AcceptedOnlyWhenHashMatchesSecret ==
    (op = "verifyCallback" /\ Returned(TRUE)) =>
        args.hash = Str(SecretDerived(provider, args))

\* payload with one of orderId, status, amount replaced
OneFieldChanged(payload) ==
    {[payload EXCEPT !.orderId = v] : v \in OrderIdValues \ {payload.orderId}}
      \cup {[payload EXCEPT !.status = v] : v \in StatusValues \ {payload.status}}
      \cup {[payload EXCEPT !.amount = v] : v \in AmountValues \ {payload.amount}}

\* a callback made with the documented formula out of non-empty fields
WellSigned(p, payload) ==
    /\ Truthy(payload.orderId) /\ Truthy(payload.status) /\ Truthy(payload.amount)
    /\ payload.hash = Str(DocumentedHash(p, payload))

SameStrings(a, b) ==
    /\ String(a.orderId) = String(b.orderId)
    /\ String(a.status) = String(b.status)
    /\ String(a.amount) = String(b.amount)

\* C3 as stated: a PayTR callback carrying the documented hash is accepted, and
\* a callback that is such a one with orderId, status or amount changed to any
\* different value, the hash kept, is refused.
C3_AnyChangedFieldRefused ==
    (op = "verifyCallback" /\ provider.kind = "PayTR") =>
        /\ WellSigned(provider, args) => Returned(TRUE)
        /\ (\E original \in OneFieldChanged(args) : WellSigned(provider, original))
              => Returned(FALSE)

\* C3 amended: a PayTR callback carrying the documented hash is accepted, and a
\* callback that is such a one with orderId, status or amount changed to a value
\* of a different string form String(v), the hash kept, is refused.
C3_ChangedFieldStringRefused ==
    (op = "verifyCallback" /\ provider.kind = "PayTR") =>
        /\ WellSigned(provider, args) => Returned(TRUE)
        /\ (\E original \in OneFieldChanged(args) :
               WellSigned(provider, original) /\ ~SameStrings(original, args))
              => Returned(FALSE)

\* a signed callback was taken back with one field changed, and refused
C3_TamperedCallbackSeen ==
    /\ op = "verifyCallback" /\ provider.kind = "PayTR"
    /\ Truthy(args.orderId) /\ Truthy(args.status) /\ Truthy(args.amount)
    /\ \E original \in OneFieldChanged(args) :
          WellSigned(provider, original) /\ ~SameStrings(original, args)
    /\ Returned(FALSE)

\* the validator rules as the specification lists them
BreaksValidatorRule(params) ==
    \/ params.orderId.t # "str" \/ params.orderId.s = <<>>
    \/ (params.amount.t = "num" /\ params.amount.n < 1)
    \/ ~EmailRegexTest(params.email.s)
    \/ ~StartsWith(params.successUrl.s, Http)
    \/ ~StartsWith(params.failUrl.s, Http)

\* C4: createPayment, of either provider, on a request that breaks a validator
\* rule rejects with an error and issues no HTTP request.
C4_InvalidRequestRejectedWithoutIO ==
    (op = "createPayment" /\ BreaksValidatorRule(args)) =>
        /\ pc = "idle"
        /\ result.kind = "rejected"
        /\ result.value.isError
        /\ requests = <<>>

\* a request whose only fault is its email was rejected
C4_BadEmailRejected ==
    /\ op = "createPayment"
    /\ args.orderId = Str(<<"A">>) /\ args.amount = Num(1)
    /\ args.email = Str(<<"a", "@", "b">>)
    /\ args.successUrl = Str(GoodUrl) /\ args.failUrl = Str(GoodUrl)
    /\ result.kind = "rejected"
    /\ requests = <<>>

\* the createPayment call has ended with a CreatePaymentResponse
CreatePaymentResolved == op = "createPayment" /\ pc = "idle" /\ result.kind = "resolved"

\* C5: every CreatePaymentResponse has a non-empty reason when success is false
\* and both token and paymentUrl when success is true; a 2xx response without
\* the success fields gives success=false.
C5_ResponseShape ==
    CreatePaymentResolved =>
        /\ ~result.value.success => Truthy(result.value.reason)
        /\ result.value.success =>
             /\ result.value.token.t # "undef"
             /\ result.value.paymentUrl.t # "undef"

\* the request meets every rule of the request validator
PassesRequestValidation(params) ==
    /\ params.orderId.t = "str" /\ params.orderId.s # <<>>
    /\ params.amount.t = "num" /\ params.amount.n >= 1
    /\ EmailRegexTest(params.email.s)
    /\ StartsWith(params.successUrl.s, Http)
    /\ StartsWith(params.failUrl.s, Http)

\* every item of the basket has a non-empty name, a price >= 0 and a quantity >= 1
PassesBasketValidation(basket) ==
    \A i \in 1..Len(basket.items) :
        /\ basket.items[i].name.t = "str" /\ basket.items[i].name.s # <<>>
        /\ basket.items[i].price.t = "num" /\ basket.items[i].price.n >= 0
        /\ basket.items[i].quantity.t = "num" /\ basket.items[i].quantity.n >= 1

LastReply == replies[Len(replies)]

\* the transport failed: fetch rejected, the status is not 2xx, or the body is
\* not JSON
TransportFailed ==
    \/ LastReply.kind = "rejected"
    \/ /\ LastReply.kind = "response"
       /\ \/ ~(LastReply.v.status \in 200..299)
          \/ LastReply.v.body.json.t = "unparseable"

\* C6: createPayment on a request that passes request and basket validation
\* never rejects; it resolves, and with success=false, a reason and the raw
\* payload when fetch rejects, the response is not 2xx or the body does not parse.
C6_ValidRequestAlwaysResolves ==
    (/\ op = "createPayment" /\ pc = "idle"
     /\ PassesRequestValidation(args) /\ PassesBasketValidation(args.basket)) =>
        /\ result.kind = "resolved"
        /\ replies # <<>>
        /\ TransportFailed =>
             /\ ~result.value.success
             /\ Truthy(result.value.reason)
             /\ result.value.raw.kind # "absent"

\* fetch rejected for a valid request and createPayment resolved with a failure
C6_RejectedFetchResolved ==
    /\ op = "createPayment" /\ pc = "idle"
    /\ PassesRequestValidation(args) /\ PassesBasketValidation(args.basket)
    /\ LastReply.kind = "rejected"
    /\ result.kind = "resolved" /\ ~result.value.success

\* the get-token response reports success: 2xx, status "success", a token
PayTRReportsSuccess(reply) ==
    /\ reply.kind = "response"
    /\ reply.v.status \in 200..299
    /\ reply.v.body.json.t = "object"
    /\ reply.v.body.json.status = Str(<<"success">>)
    /\ reply.v.body.json.token.t = "str" /\ reply.v.body.json.token.s # <<>>

\* C7: PayTRProvider.createPayment on a valid request returns success=true
\* exactly when the response is 2xx with status "success" and a non-empty token;
\* then token is the body's token and paymentUrl the payment page of that token.
C7_PayTRSuccessExactly ==
    (CreatePaymentResolved /\ provider.kind = "PayTR") =>
        /\ result.value.success <=> PayTRReportsSuccess(LastReply)
        /\ result.value.success =>
             /\ result.value.token = LastReply.v.body.json.token
             /\ result.value.paymentUrl =
                  Str(<<"https://www.paytr.com/odeme/guvenli/">> \o LastReply.v.body.json.token.s)

\* PayTR answered with a token and createPayment returned it
C7_PayTRTokenReturned ==
    /\ CreatePaymentResolved /\ provider.kind = "PayTR"
    /\ PayTRReportsSuccess(LastReply)
    /\ result.value.success
    /\ result.value.token = Str(<<"t", "k">>)

\* C8: refund with an empty or missing orderId, and queryTransaction with an
\* empty orderId, reject with an error before any HTTP request is issued.
C8_MissingOrderIdRejectedWithoutIO ==
    (\/ (op = "refund" /\ (args.orderId.t = "undef" \/ args.orderId = Str(<<>>)))
     \/ (op = "queryTransaction" /\ (args.t = "undef" \/ args = Str(<<>>)))) =>
        /\ pc = "idle"
        /\ result.kind = "rejected"
        /\ result.value.isError
        /\ requests = <<>>

\* a Stripe refund without orderId was rejected
C8_StripeRefundWithoutOrderId ==
    /\ op = "refund" /\ provider.kind = "Stripe"
    /\ args.orderId = Str(<<>>)
    /\ result.kind = "rejected"
    /\ requests = <<>>

\* the refund call has ended after the provider answered
RefundAnswered ==
    op = "refund" /\ pc = "idle" /\ replies # <<>> /\ LastReply.kind = "response"

\* what the provider says in its answer: the response text (PayTR), the
\* error.message of the JSON body when it has one (Stripe)
ProviderMessage(p, res) ==
    IF p.kind = "PayTR" THEN res.body.text
    ELSE IF res.body.json.t = "object" /\ Truthy(res.body.json.error.message)
    THEN res.body.json.error.message.s
    ELSE <<>>

RefundBodyReturned ==
    LastReply.v.status \in 200..299 =>
        (LastReply.v.body.json.t # "unparseable" => result = Resolved(LastReply.v.body.json))

\* C9 as stated: on a non-2xx answer refund, of either provider, throws an error
\* whose message embeds the provider's message and the HTTP status; on a 2xx
\* answer it returns the parsed body unchanged.
C9_RefundErrorEmbedsMessageAndStatus ==
    RefundAnswered =>
        /\ ~(LastReply.v.status \in 200..299) =>
             /\ result.kind = "rejected" /\ result.value.isError
             /\ Embeds(result.value.message, ProviderMessage(provider, LastReply.v))
             /\ Embeds(result.value.message, NatToStr(LastReply.v.status))
        /\ RefundBodyReturned

\* C9 amended: on a non-2xx answer refund throws an error; PayTR's message
\* embeds the HTTP status and the response text, Stripe's message embeds the
\* provider's error message, or the response's statusText when the body is
\* an object without one; on a 2xx answer refund returns the parsed body
\* unchanged.
C9_RefundErrorPerProvider ==
    RefundAnswered =>
        /\ ~(LastReply.v.status \in 200..299) =>
             /\ result.kind = "rejected" /\ result.value.isError
             /\ Embeds(result.value.message, ProviderMessage(provider, LastReply.v))
             /\ provider.kind = "PayTR" =>
                  Embeds(result.value.message, NatToStr(LastReply.v.status))
             /\ (/\ provider.kind = "Stripe"
                 /\ LastReply.v.body.json.t = "object"
                 /\ Falsy(LastReply.v.body.json.error.message)) =>
                  Embeds(result.value.message, LastReply.v.statusText)
        /\ RefundBodyReturned

\* Stripe answered a refund with 404 and an error message, and refund threw it
C9_StripeRefundRefused ==
    /\ RefundAnswered /\ provider.kind = "Stripe"
    /\ LastReply.v.status = 404
    /\ ProviderMessage(provider, LastReply.v) = <<"Invalid API key">>
    /\ result.kind = "rejected"
    /\ Embeds(result.value.message, <<"Invalid API key">>)

StripeApi == <<"https://api.stripe.com/v1">>

IsOkResponse(reply) == reply.kind = "response" /\ reply.v.status \in 200..299
IsFailedResponse(reply) == reply.kind = "response" /\ ~(reply.v.status \in 200..299)

\* C10: StripeProvider.queryTransaction first GETs the payment intent; if and
\* only if that response is not OK it GETs the checkout session of the same id,
\* once; it returns the body of the first OK response, throws when both
\* responses are not OK, and never issues more than two requests.
C10_StripeQueryFallback ==
    (op = "queryTransaction" /\ provider.kind = "Stripe" /\ requests # <<>>) =>
        /\ Len(requests) <= 2
        /\ requests[1].method = "GET" /\ requests[1].body = <<>>
        /\ requests[1].url = StripeApi \o <<"/payment_intents/">> \o args.s
        /\ Len(requests) = 2 =>
             /\ requests[2].method = "GET" /\ requests[2].body = <<>>
             /\ requests[2].url = StripeApi \o <<"/checkout/sessions/">> \o args.s
        /\ replies # <<>> => (Len(requests) = 2 <=> IsFailedResponse(replies[1]))
        /\ pc = "idle" =>
             /\ result.kind = "resolved" =>
                  /\ IsOkResponse(LastReply)
                  /\ result.value = LastReply.v.body.json
             /\ (IsOkResponse(LastReply) /\ LastReply.v.body.json.t # "unparseable") =>
                  result = Resolved(LastReply.v.body.json)
             /\ (Len(replies) = 2 /\ IsFailedResponse(replies[2])) =>
                  result.kind = "rejected"

\* the payment intent was not found and the checkout session was returned
C10_FallbackReturnedSession ==
    /\ op = "queryTransaction" /\ provider.kind = "Stripe" /\ pc = "idle"
    /\ Len(requests) = 2 /\ Len(replies) = 2
    /\ IsFailedResponse(replies[1]) /\ IsOkResponse(replies[2])
    /\ result = Resolved(replies[2].v.body.json)

AsyncOps == {"createPayment", "refund", "queryTransaction"}

\* the request is addressed to p's API and carries p's credentials
ServedBy(p, req) ==
    /\ StartsWith(req.url, p.apiBase)
    /\ IF p.kind = "PayTR"
       THEN req.headers = FormHeaders /\ req.body.merchant_id = p.merchantId
       ELSE req.headers = getAuthHeaders(p)

\* the provider method runs on one instance from its start to its end
SameReceiver == (op # "none" /\ op' = op) => self' = self

\* a call starts on the provider the service holds at that moment
StartsOnCurrentProvider == (op = "none" /\ op' \in AsyncOps) => self' = provider

\* C11: a createPayment, refund or queryTransaction started through the service
\* runs to its end on the provider the service held when it was invoked, whatever
\* setProvider does meanwhile: every request of the call is addressed to that
\* provider's API with its credentials, a rejected fetch is handled by its
\* code, and a call started after setProvider runs on the new provider.
C11_PendingCallKeepsItsProvider ==
    /\ [](op \in AsyncOps =>
            /\ \A i \in 1..Len(requests) : ServedBy(self, requests[i])
            /\ (pc = "idle" /\ replies # <<>> /\ replies[Len(replies)].kind = "rejected") =>
                   result = OnFetchRejected(self, op, replies[Len(replies)].v))
    /\ [][SameReceiver]_vars
    /\ [][StartsOnCurrentProvider]_vars

\* setProvider replaced a Stripe provider by another while its queryTransaction
\* was pending, and the call went on to its second lookup
C11_ProviderReplacedDuringQuery ==
    /\ op = "queryTransaction"
    /\ self.kind = "Stripe" /\ provider.kind = "Stripe" /\ provider # self
    /\ Len(requests) = 2

FourOps == AsyncOps \cup {"verifyCallback"}

\* the call that starts in this step is the provider's own method on the
\* caller's argument
DelegatedStart ==
    (op = "none" /\ op' \in FourOps) =>
        /\ self' = given
        /\ op' = "verifyCallback" => result' = [kind |-> "returned",
                                                value |-> verifyCallback(given, args')]
        /\ op' \in AsyncOps =>
             LET started == CASE op' = "createPayment" -> createPayment(given, args', <<"r">>)
                              [] op' = "refund" -> refund(given, args')
                              [] op' = "queryTransaction" -> queryTransaction(given, args')
             IN  IF started.thrown
                 THEN result' = Rejected(started.err) /\ requests' = <<>>
                 ELSE requests' = <<started.request>>

NameReturned ==
    (op = "none" /\ op' = "getProviderName") =>
        result' = [kind |-> "returned", value |-> given'.name]

\* C12: the service holds exactly one provider, the one given last to its
\* constructor or to setProvider; getProviderName returns that provider's name
\* and each of the four operations is that provider's method applied to the
\* caller's argument.
C12_ServiceDelegatesToLastGiven ==
    /\ [](provider = given /\ provider \in ServiceProviders)
    /\ [][NameReturned]_vars
    /\ [][DelegatedStart]_vars

\* getProviderName answered with the name of a provider set by setProvider
C12_NameOfStripeReturned ==
    /\ op = "getProviderName"
    /\ given.kind = "Stripe"
    /\ result = [kind |-> "returned", value |-> <<"Stripe">>]

\* the operations that talk to one endpoint only
SingleRequestCall ==
    \/ op \in {"createPayment", "refund"}
    \/ op = "queryTransaction" /\ self.kind = "PayTR"

\* C13: createPayment and refund of both providers and PayTR's queryTransaction
\* issue at most one HTTP request per call: whatever that request settles
\* with, failure included, the call ends without sending another.
C13_AtMostOneRequest ==
    SingleRequestCall =>
        /\ Len(requests) <= 1
        /\ Len(replies) <= Len(requests)
        /\ replies # <<>> => pc = "idle" /\ result # NoResult

\* a PayTR refund was answered with a 500 and ended after its only request
C13_FailedRefundNotRetried ==
    /\ op = "refund" /\ self.kind = "PayTR" /\ pc = "idle"
    /\ Len(requests) = 1 /\ Len(replies) = 1
    /\ replies[1].kind = "response" /\ replies[1].v.status = 500
    /\ result.kind = "rejected"

\* the validator rules a request violates, numbered in the order orderId (1),
\* amount (2), email (3), successUrl (4), failUrl (5)
ViolatedRules(params) ==
    {r \in 1..5 :
        CASE r = 1 -> ~(params.orderId.t = "str" /\ params.orderId.s # <<>>)
          [] r = 2 -> ~(params.amount.t = "num" /\ params.amount.n >= 1)
          [] r = 3 -> ~(params.email.t = "str" /\ EmailRegexTest(params.email.s))
          [] r = 4 -> ~(params.successUrl.t = "str" /\ StartsWith(params.successUrl.s, Http))
          [] r = 5 -> ~(params.failUrl.t = "str" /\ StartsWith(params.failUrl.s, Http))}

AmountMessageOf(p) == IF p.kind = "PayTR" THEN PayTRAmountMessage ELSE StripeAmountMessage

\* C14: a createPayment request that violates validator rules is rejected with
\* one error, the one of the lowest-numbered rule it violates in the order
\* orderId, amount, email, successUrl, failUrl; and, for each provider, the
\* messages of the five rules are pairwise distinct.
C14_FirstViolatedRuleReported ==
    /\ (op = "createPayment" /\ ViolatedRules(args) # {}) =>
          LET first == CHOOSE r \in ViolatedRules(args) :
                          \A q \in ViolatedRules(args) : r <= q
          IN  result = Rejected(Err(RuleMessage(first, AmountMessageOf(self))))
    /\ \A m \in {PayTRAmountMessage, StripeAmountMessage} :
          \A r, q \in 1..5 : r # q => RuleMessage(r, m) # RuleMessage(q, m)

\* a request with a bad amount, a bad email and a bad success URL was rejected
\* for its amount
C14_SeveralRulesViolated ==
    /\ op = "createPayment"
    /\ ViolatedRules(args) = {2, 3, 4}
    /\ result = Rejected(Err(AmountMessageOf(self)))

\* createPayment went past validatePaymentRequest: it issued its request, or
\* failed later with an error that is none of the validator's
ValidationPassed ==
    \/ requests # <<>>
    \/ /\ result.kind = "rejected"
       /\ \A r \in 1..5 : result.value.message # RuleMessage(r, AmountMessageOf(self))

AmountBelowOne(params) == params.amount.t = "num" /\ params.amount.n < 1

AmountAtLeastOne(params) == params.amount.t = "num" /\ params.amount.n >= 1

\* C15 as stated: every request with amount < 1 fails validation with the
\* amount error, and a request with amount >= 1 and all other fields valid
\* passes validation.
C15_AmountBelowOneGivesAmountError ==
    op = "createPayment" =>
        /\ AmountBelowOne(args) => result = Rejected(Err(AmountMessageOf(self)))
        /\ (AmountAtLeastOne(args) /\ ViolatedRules(args) = {}) => ValidationPassed

\* C15, amended: a request with a non-empty string orderId and amount < 1 fails
\* validation with the amount error (a request whose orderId is also invalid
\* fails with the orderId error instead), and a request with amount >= 1 and
\* all other fields valid passes validation.
C15_AmountRuleAfterOrderId ==
    op = "createPayment" =>
        /\ (AmountBelowOne(args) /\ ~(1 \in ViolatedRules(args))) =>
               result = Rejected(Err(AmountMessageOf(self)))
        /\ (AmountBelowOne(args) /\ 1 \in ViolatedRules(args)) =>
               result = Rejected(Err(RuleMessage(1, AmountMessageOf(self))))
        /\ (AmountAtLeastOne(args) /\ ViolatedRules(args) = {}) => ValidationPassed

\* a request whose only fault is an amount of 0 was rejected for its amount
C15_ZeroAmountRejected ==
    /\ op = "createPayment"
    /\ args.amount = Num(0)
    /\ ViolatedRules(args) = {2}
    /\ result = Rejected(Err(AmountMessageOf(self)))
    /\ requests = <<>>

\* the item breaks a basket rule: name a non-empty string, price >= 0,
\* quantity >= 1
InvalidItem(item) ==
    \/ ~(item.name.t = "str" /\ item.name.s # <<>>)
    \/ ~(item.price.t = "num" /\ item.price.n >= 0)
    \/ ~(item.quantity.t = "num" /\ item.quantity.n >= 1)

HasInvalidItem(basket) == \E i \in 1..Len(basket.items) : InvalidItem(basket.items[i])

\* C16: createPayment, of either provider, on a request that passes the request
\* validator but carries a basket with an invalid item is rejected with an error
\* and issues no HTTP request.
C16_InvalidBasketRejectedWithoutIO ==
    (op = "createPayment" /\ ViolatedRules(args) = {} /\ HasInvalidItem(args.basket)) =>
        /\ pc = "idle"
        /\ requests = <<>>
        /\ result.kind = "rejected"
        /\ result.value.isError

\* the basket of the request, empty when the request has none
ItemsOf(params) == IF params.basket.present THEN params.basket.items ELSE <<>>

\* the triple the specification gives for an item: the name cut to its first
\* 100 characters, price/100 on two decimals, the quantity
ExpectedTriple(item) ==
    LET name == item.name.s
        price == item.price.n
    IN  << SubSeq(name, 1, IF Len(name) < 100 THEN Len(name) ELSE 100),
           NatToStr(price \div 100) \o <<".">>
              \o <<Digit((price % 100) \div 10), Digit((price % 100) % 10)>>,
           item.quantity.n >>

ExpectedBasket(items) ==
    IF items = <<>>
    THEN << << <<"Urun">>, <<"1", ".", "0", "0">>, 1 >> >>
    ELSE [i \in 1..Len(items) |-> ExpectedTriple(items[i])]

\* the PayTR createPayment request of a basket whose items are all valid
PayTRBasketSent ==
    /\ op = "createPayment" /\ self.kind = "PayTR"
    /\ requests # <<>>
    /\ ~HasInvalidItem(args.basket)

\* C17: the user_basket PayTR's createPayment sends for a basket of valid items
\* is base64 of the JSON list of one triple [name cut to 100 characters,
\* price/100 on two decimals, quantity] per item, in order, and of the single
\* placeholder triple with price "1.00" and quantity 1 when the basket is empty
\* or absent.
C17_PayTRBasketEncoding ==
    PayTRBasketSent =>
        requests[1].body.user_basket = Base64(JsonStringify(ExpectedBasket(ItemsOf(args))))

\* a basket with a name of 101 characters and a price of 10.05 was sent
C17_LongNameAndSmallFraction ==
    /\ PayTRBasketSent
    /\ args.basket.present /\ Len(args.basket.items) = 2
    /\ args.basket.items[1].name = Str(LongName)
    /\ args.basket.items[2].price = Num(1005)
    /\ requests[1].body.user_basket =
          Base64(JsonStringify(<< << [i \in 1..100 |-> "n"], <<"0", ".", "9", "9">>, 1 >>,
                                  << <<"Q">>, <<"1", "0", ".", "0", "5">>, 2 >> >>))

\* the currency code of the request, TRY by default, in lower case
ExpectedCurrency(params) ==
    IF params.currency.t = "undef" THEN <<"try">>
    ELSE IF params.currency = Str(<<"USD">>) THEN <<"usd">>
    ELSE params.currency.s

\* the Stripe createPayment request of a non-empty basket
StripeBasketSent ==
    /\ op = "createPayment" /\ self.kind = "Stripe"
    /\ requests # <<>>
    /\ args.basket.present /\ args.basket.items # <<>>

\* C18: Stripe's createPayment on a non-empty basket sends one line item per
\* basket item, in order, with the item's price as unit_amount, unconverted,
\* the item's quantity, and the request's currency (TRY by default) in lower
\* case.
C18_StripeLineItems ==
    StripeBasketSent =>
        LET sent == requests[1].body.line_items
            items == args.basket.items
        IN  /\ Len(sent) = Len(items)
            /\ \A i \in 1..Len(items) :
                 /\ sent[i].unit_amount = String(items[i].price)
                 /\ sent[i].quantity = String(items[i].quantity)
                 /\ sent[i].currency = ExpectedCurrency(args)

\* a basket of two items priced 1005 and 5 was sent in USD
C18_TwoItemsInUsd ==
    /\ StripeBasketSent
    /\ args.currency = Str(<<"USD">>)
    /\ Len(args.basket.items) = 2
    /\ args.basket.items[1].price = Num(1005) /\ args.basket.items[2].price = Num(5)
    /\ requests[1].body.line_items[1].unit_amount = <<"1", "0", "0", "5">>
    /\ requests[1].body.line_items[2].quantity = <<"3">>
    /\ requests[1].body.line_items[1].currency = <<"usd">>

\* the name of the amount field in the provider's refund request
RefundAmountField(p) == IF p.kind = "PayTR" THEN "refund_amount" ELSE "amount"

\* C19: the refund request of either provider carries the amount field with
\* the given value whenever RefundRequest.amount is supplied, and has no amount
\* field (a full refund) only when amount is omitted.
C19_AmountFieldIffSupplied ==
    (op = "refund" /\ requests # <<>>) =>
        LET body == requests[1].body
            field == RefundAmountField(self)
        IN  /\ args.amount.t # "undef" =>
                 /\ field \in DOMAIN body
                 /\ body[field] = String(args.amount)
            /\ args.amount.t = "undef" => field \notin DOMAIN body

\* a credential as the specification resolves it: the explicit configuration
\* value when one is given, the environment variable otherwise, '' when neither
ResolvedCredential(configured, environment) ==
    IF configured.t # "undef" THEN configured
    ELSE IF environment.t # "undef" THEN environment
    ELSE Str(<<>>)

\* the required credentials of an instance are all non-empty
HasCredentials(p) ==
    /\ p.kind = "PayTR" => p.merchantId # <<>> /\ p.merchantKey # <<>>
    /\ p.kind = "Stripe" => p.secretKey # <<>>

\* C20: new PayTRProvider throws an error exactly when the resolved merchantId
\* or merchantKey is empty, and new StripeProvider exactly when the resolved
\* secretKey is empty; otherwise the instance holds the resolved credentials,
\* and no instance in use lacks a required credential.
C20_ConstructorThrowsIffCredentialMissing ==
    /\ op = "new PayTRProvider" =>
         LET id == ResolvedCredential(args.config.merchantId, args.env.PAYTR_MERCHANT_ID)
             key == ResolvedCredential(args.config.merchantKey, args.env.PAYTR_KEY)
         IN  /\ result.kind = "thrown" <=> (id.s = <<>> \/ key.s = <<>>)
             /\ result.kind = "thrown" => result.value.isError
             /\ result.kind # "thrown" =>
                  /\ result.kind = "returned"
                  /\ result.value.merchantId = id.s
                  /\ result.value.merchantKey = key.s
    /\ op = "new StripeProvider" =>
         LET key == ResolvedCredential(args.config.secretKey, args.env.STRIPE_SECRET_KEY)
         IN  /\ result.kind = "thrown" <=> key.s = <<>>
             /\ result.kind = "thrown" => result.value.isError
             /\ result.kind # "thrown" =>
                  /\ result.kind = "returned"
                  /\ result.value.secretKey = key.s
    /\ \A p \in {provider, given, self} : HasCredentials(p)

\* the constructor threw for an explicit empty merchantKey although PAYTR_KEY
\* was set
C20_EmptyConfigKeyOverridesEnv ==
    /\ op = "new PayTRProvider"
    /\ args.config.merchantId = Str(<<"M">>)
    /\ args.config.merchantKey = Str(<<>>)
    /\ args.env.PAYTR_KEY = Str(<<"K", "2">>)
    /\ result.kind = "thrown"

\* the get-token request PayTR's createPayment issued
PayTRTokenRequestSent ==
    /\ op = "createPayment" /\ self.kind = "PayTR"
    /\ requests # <<>>

\* the message createPayment signs as paytr_token, for the nonce rand
SignedPaymentMessage(p, params, rand) ==
    p.merchantId \o String(params.orderId) \o String(params.amount)
      \o String(params.successUrl) \o String(params.failUrl) \o rand

\* C24: every get-token request PayTR's createPayment sends has a rand field,
\* and its value is the nonce that entered the message signed as paytr_token.
C24_RandSentAsSigned ==
    PayTRTokenRequestSent =>
        LET body == requests[1].body
        IN  /\ "rand" \in DOMAIN body
            /\ body.paytr_token = hmacBase64(self, SignedPaymentMessage(self, args, body.rand))

\* C25: in PayTR's requests the amount string in the signed message is the one
\* in the body: createPayment signs and sends String(amount) as payment_amount,
\* and refund signs the string it sends as refund_amount, the empty string
\* exactly when it sends no refund_amount.
C25_SignedAmountIsSentAmount ==
    /\ PayTRTokenRequestSent =>
         LET body == requests[1].body
         IN  /\ "payment_amount" \in DOMAIN body
             /\ body.payment_amount = String(args.amount)
             /\ \E rand \in Rands :
                  body.paytr_token = hmacBase64(self, SignedPaymentMessage(self, args, rand))
    /\ (op = "refund" /\ self.kind = "PayTR" /\ requests # <<>>) =>
         LET body == requests[1].body
             sent == IF "refund_amount" \in DOMAIN body THEN body.refund_amount ELSE <<>>
         IN  /\ "refund_amount" \in DOMAIN body => sent # <<>>
             /\ body.paytr_token =
                  hmacBase64(self, self.merchantId \o String(args.orderId) \o sent
                                     \o self.merchantSalt)

\* a PayTR refund of amount 2 was signed and sent with the string "2"
C25_RefundOfTwoSent ==
    /\ op = "refund" /\ self.kind = "PayTR" /\ requests # <<>>
    /\ args.amount = Num(2)
    /\ requests[1].body.refund_amount = <<"2">>
    /\ requests[1].body.paytr_token =
          hmacBase64(self, self.merchantId \o String(args.orderId) \o <<"2">>
                             \o self.merchantSalt)

\* the fields of a callback that enter the signed message
SignedFields(payload) ==
    <<String(payload.orderId), String(payload.status), String(payload.amount)>>

\* C26: for a PayTR provider, a hash that makes verifyCallback accept one
\* payload never makes it accept a payload whose orderId, status or
\* String(amount) differs.
C26_HashBindsTheThreeFields ==
    (op = "verifyCallback" /\ self.kind = "PayTR" /\ Returned(TRUE)) =>
        \A other \in Callbacks(self) :
            (other.hash = args.hash /\ SignedFields(other) # SignedFields(args)) =>
                ~PayTRVerifyCallback(self, other)

\* what the answer of Stripe's verifyCallback may depend on
StripeRelevant(p, payload) ==
    <<Truthy(payload.orderId), Truthy(payload.status), Truthy(payload.hash),
      payload.hash = Str(p.webhookSecret)>>

\* C27: for a Stripe provider, two payloads that agree on whether orderId,
\* status and hash are non-empty and on whether hash equals the webhook secret
\* get the same answer from verifyCallback, whatever else differs (orderId,
\* status and amount values).
C27_StripeAnswerDependsOnHashOnly ==
    (op = "verifyCallback" /\ self.kind = "Stripe") =>
        \A other \in Callbacks(self) :
            StripeRelevant(self, other) = StripeRelevant(self, args) =>
                StripeVerifyCallback(self, other) = result.value

\* a payload without amount was accepted for its hash
C27_AcceptedWithoutAmount ==
    /\ op = "verifyCallback" /\ self.kind = "Stripe"
    /\ self.webhookSecret = <<"w", "h">>
    /\ args.amount = Undef /\ args.hash = Str(<<"w", "h">>)
    /\ Returned(TRUE)

DigitValue(c) ==
    CASE c = "0" -> 0 [] c = "1" -> 1 [] c = "2" -> 2 [] c = "3" -> 3 [] c = "4" -> 4
      [] c = "5" -> 5 [] c = "6" -> 6 [] c = "7" -> 7 [] c = "8" -> 8 [] c = "9" -> 9

\* the number a string of digits denotes
RECURSIVE StrToNat(_)
StrToNat(s) ==
    IF s = <<>> THEN 0
    ELSE 10 * StrToNat(SubSeq(s, 1, Len(s) - 1)) + DigitValue(s[Len(s)])

\* the sum of unit_amount x quantity over the line items of a request body
RECURSIVE Charged(_)
Charged(lineItems) ==
    IF lineItems = <<>> THEN 0
    ELSE StrToNat(Head(lineItems).unit_amount) * StrToNat(Head(lineItems).quantity)
           + Charged(Tail(lineItems))

\* C28: when Stripe's createPayment sends a request for a basket that is absent
\* or empty, its line items charge the request's amount.
C28_NoBasketChargesAmount ==
    (/\ op = "createPayment" /\ self.kind = "Stripe" /\ requests # <<>>
     /\ args.basket.items = <<>>) =>
        Charged(requests[1].body.line_items) = args.amount.n

\* the sum of price * quantity over the entries of a basket
RECURSIVE BasketSum(_)
BasketSum(basket) ==
    IF basket = <<>> THEN 0
    ELSE basket[1].price.n * basket[1].quantity.n + BasketSum(Tail(basket))

\* C21: toPaymentRequest on a non-empty cart returns a request whose basket has
\* one entry per cart item, in the items' order, with that item's name, price
\* and quantity, and whose amount is the sum of price * quantity over the
\* basket; on an empty cart it throws and returns no request.
C21_PaymentRequestMirrorsCart ==
    op = "toPaymentRequest" =>
        IF cart.items = <<>>
        THEN result.kind = "thrown" /\ result.value.isError
        ELSE /\ result.kind = "returned"
             /\ result.value.basket.present
             /\ LET basket == result.value.basket.items
                IN  /\ Len(basket) = Len(cart.items)
                    /\ \A i \in 1..Len(basket) :
                          /\ basket[i].name = Str(cart.items[i].name)
                          /\ basket[i].price = Num(cart.items[i].price)
                          /\ basket[i].quantity = Num(cart.items[i].quantity)
                    /\ result.value.amount = Num(BasketSum(basket))

\* a request made from a cart of two items, one of them taken twice
C21_RequestFromTwoItems ==
    /\ op = "toPaymentRequest"
    /\ result.kind = "returned"
    /\ Len(cart.items) = 2
    /\ \E i \in 1..2 : cart.items[i].quantity = 2
    /\ result.value.amount.n >= 450

\* a step in which addItem was called
AddItemStep == op' = "addItem" /\ cart' # cart

\* every id has at most one entry, and the totals are the sums over the ids
TotalsAreSums(items) ==
    /\ \A i, j \in 1..Len(items) : items[i].id = items[j].id => i = j
    /\ \A i \in 1..Len(items) : items[i].id \in Ids
    /\ LET present == {id \in Ids : Has(items, id)}
           q(id) == IF id \in present THEN Get(items, id).quantity ELSE 0
           a(id) == IF id \in present
                    THEN Get(items, id).price * Get(items, id).quantity ELSE 0
       IN  /\ totalQuantity(items) = q("a") + q("b")
           /\ totalAmount(items) = a("a") + a("b")

\* what an addItem step does to the cart when the quantity of the id grows by n
AddedBy(n) ==
    LET id == args'.id
    IN  /\ Has(cart'.items, id)
        /\ QuantityOf(cart'.items, id) = QuantityOf(cart.items, id) + n
        /\ Len(cart'.items) = Len(cart.items) + (IF Has(cart.items, id) THEN 0 ELSE 1)
        /\ TotalsAreSums(cart'.items)

\* C22 as stated: addItem increases the quantity of the id by the added
\* quantity, by 1 when none is given, never creates a second entry for the id,
\* and the totals are the sums over the items.
C22_AddIncreasesByGivenQuantity ==
    [][AddItemStep =>
          /\ Has(cart.items, args'.id) => AddedBy(Nullish(args'.quantity, Num(1)).n)
          /\ TotalsAreSums(cart'.items)]_vars

\* C22: addItem increases the quantity of the id by the added quantity, by 1
\* when none or one below 1 is given, never creates a second entry for the id,
\* and afterwards totalQuantity is the sum of the item quantities and
\* totalAmount the sum of price * quantity over the items.
C22_AddIncreasesByAtLeastOne ==
    [][AddItemStep => AddedBy(Max(1, Nullish(args'.quantity, Num(1)).n))]_vars

\* item a was added again with quantity 0 and now counts twice
C22_ZeroAddedToExisting ==
    /\ op = "addItem"
    /\ args.id = "a" /\ args.quantity = Num(0)
    /\ Len(cart.items) = 2
    /\ QuantityOf(cart.items, "a") = 2

\* a mount of a persisting provider that found a saved cart in its Storage
MountedOverStoredCart ==
    /\ op = "mount"
    /\ Persisting(args.props)
    /\ args.stored.kind = "json"

C29_EveryItemHasPositiveQuantity ==
    props.mounted => \A i \in 1..Len(cart.items) : cart.items[i].quantity >= 1

\* C30 as stated: when the items have non-empty currencies, the cart currency
\* is undefined exactly when the cart is empty, and otherwise it is the
\* currency of an item in the cart.
C30_CartCurrencyIsAnItemsCurrency ==
    (props.mounted /\ \A i \in 1..Len(cart.items) : Truthy(cart.items[i].currency)) =>
        /\ cart.currency = Undef <=> cart.items = <<>>
        /\ cart.items # <<>> =>
              \E i \in 1..Len(cart.items) : cart.items[i].currency = cart.currency

====
